---- MODULE Spec2Model ----
(***************************************************************************)
(* r2-image-worker (src/src/index.ts): a Cloudflare Worker that stores     *)
(* uploaded files in an R2 bucket, deduplicates them by SHA-256 hash       *)
(* within a partition (images / videos / files) and serves them back.      *)
(*                                                                         *)
(* Strings are TLA+ strings; the character at position i of s is           *)
(* SubSeq(s, i, i).  An optional value (undefined in the source) is a      *)
(* sequence of length 0 or 1: None or Some(v).                             *)
(***************************************************************************)
EXTENDS Naturals, Integers, Sequences, FiniteSets, TLC

\* env, bucket, now and req are the worker's bindings, the bucket, the clock
\* and the requests; helper is one call of a helper function on its own: its
\* arguments and, once it has run, its result.
VARIABLES env, bucket, now, req, helper

vars == <<env, bucket, now, req, helper>>

(***************************************************************************)
(* Bounds of the model                                                     *)
(***************************************************************************)
MaxReqs == 2
\* The longest filename, in characters, among the ones built from NameChars.
MaxNameChars == 3

Reqs == 1..MaxReqs

(***************************************************************************)
(* Optional values                                                         *)
(***************************************************************************)
None == <<>>
Some(v) == <<v>>
IsSome(o) == o # <<>>
Get(o) == o[1]
\* JavaScript truthiness of an optional string: undefined and '' are falsy.
Truthy(o) == IsSome(o) /\ Get(o) # ""
\* a || b on optional strings
OrElse(o, d) == IF Truthy(o) THEN Get(o) ELSE d

(***************************************************************************)
(* String helpers (String.prototype methods used by the source)            *)
(***************************************************************************)
CharAt(s, i) == SubSeq(s, i, i)

StartsWith(s, p) == Len(s) >= Len(p) /\ SubSeq(s, 1, Len(p)) = p

EndsWith(s, p) == Len(s) >= Len(p) /\ SubSeq(s, Len(s) - Len(p) + 1, Len(s)) = p

\* s.substring(0, n)
Substring0(s, n) == IF Len(s) <= n THEN s ELSE SubSeq(s, 1, n)

\* 1-based position of the last occurrence of the character c in s, 0 if none
\* (s.lastIndexOf(c) + 1).
LastIndexOf(s, c) ==
  LET hits == {i \in 1..Len(s) : CharAt(s, i) = c}
  IN IF hits = {} THEN 0 ELSE CHOOSE i \in hits : \A j \in hits : j <= i

\* 1-based position of the first occurrence of the character c in s at or
\* after position from, 0 if none.
IndexOfFrom(s, c, from) ==
  LET hits == {i \in from..Len(s) : CharAt(s, i) = c}
  IN IF hits = {} THEN 0 ELSE CHOOSE i \in hits : \A j \in hits : i <= j

\* The characters that occur in keys, in increasing code-unit order.
Ascii ==
  <<"-", ".", "/", "0", "1", "2", "3", "4", "5", "6", "7", "8", "9", ":",
    "=", "A", "B", "C", "D", "E", "F", "G", "H", "I", "J", "K", "L", "M",
    "N", "O", "P", "Q", "R", "S", "T", "U", "V", "W", "X", "Y", "Z", "_",
    "a", "b", "c", "d", "e", "f", "g", "h", "i", "j", "k", "l", "m", "n",
    "o", "p", "q", "r", "s", "t", "u", "v", "w", "x", "y", "z">>

Code(c) == IF \E i \in 1..Len(Ascii) : Ascii[i] = c
           THEN CHOOSE i \in 1..Len(Ascii) : Ascii[i] = c
           ELSE 0

\* Lexicographic order on strings, the order in which R2 lists keys.
StrLess(a, b) ==
  LET n == IF Len(a) < Len(b) THEN Len(a) ELSE Len(b)
      diffs == {i \in 1..n : CharAt(a, i) # CharAt(b, i)}
  IN IF diffs = {} THEN Len(a) < Len(b)
     ELSE LET d == CHOOSE i \in diffs : \A j \in diffs : i <= j
          IN Code(CharAt(a, d)) < Code(CharAt(b, d))

\* Number.prototype.toString for a natural number.
Digits == <<"0", "1", "2", "3", "4", "5", "6", "7", "8", "9">>
RECURSIVE NumberToString(_)
NumberToString(n) ==
  IF n < 10 THEN Digits[n + 1]
  ELSE NumberToString(n \div 10) \o Digits[(n % 10) + 1]

(***************************************************************************)
(* sanitizeFilename                                                        *)
(***************************************************************************)
MaxNameLen == 100

Whitespace == {" ", "\t", "\n"}
\* [a-zA-Z0-9_.-]
SafeChars ==
  {"a", "b", "c", "d", "e", "f", "g", "h", "i", "j", "k", "l", "m", "n",
    "o", "p", "q", "r", "s", "t", "u", "v", "w", "x", "y", "z", "A", "B",
    "C", "D", "E", "F", "G", "H", "I", "J", "K", "L", "M", "N", "O", "P",
    "Q", "R", "S", "T", "U", "V", "W", "X", "Y", "Z", "0", "1", "2", "3",
    "4", "5", "6", "7", "8", "9", "_", ".", "-"}

\* .replace(/\s+/g, '_') on the characters lo..hi of s: every maximal run of
\* whitespace becomes one '_' (the range is halved to keep the recursion
\* shallow).
RECURSIVE ReplaceWhitespaceRuns(_, _, _)
ReplaceWhitespaceRuns(s, lo, hi) ==
  IF lo > hi THEN ""
  ELSE IF lo = hi
  THEN (IF CharAt(s, lo) \in Whitespace
        THEN (IF lo > 1 /\ CharAt(s, lo - 1) \in Whitespace THEN "" ELSE "_")
        ELSE CharAt(s, lo))
  ELSE LET mid == (lo + hi) \div 2
       IN ReplaceWhitespaceRuns(s, lo, mid) \o ReplaceWhitespaceRuns(s, mid + 1, hi)

\* .replace(/[^a-zA-Z0-9_.-]/g, '') on the characters lo..hi of s
RECURSIVE RemoveUnsafe(_, _, _)
RemoveUnsafe(s, lo, hi) ==
  IF lo > hi THEN ""
  ELSE IF lo = hi
  THEN (IF CharAt(s, lo) \in SafeChars THEN CharAt(s, lo) ELSE "")
  ELSE LET mid == (lo + hi) \div 2
       IN RemoveUnsafe(s, lo, mid) \o RemoveUnsafe(s, mid + 1, hi)

\* A sanitizer that keeps the whole path.
sanitizeFilenameKeepingPath(name) ==
  LET replaced == ReplaceWhitespaceRuns(name, 1, Len(name))
      sanitized == RemoveUnsafe(replaced, 1, Len(replaced))
  IN Substring0(sanitized, MaxNameLen)

sanitizeFilename(name) ==
  LET baseName == SubSeq(name, LastIndexOf(name, "/") + 1, Len(name))
      replaced == ReplaceWhitespaceRuns(baseName, 1, Len(baseName))
      sanitized == RemoveUnsafe(replaced, 1, Len(replaced))
  IN Substring0(sanitized, MaxNameLen)

(***************************************************************************)
(* generateUniqueFilename                                                  *)
(***************************************************************************)
\* hono/utils/mime getExtension: MIME type -> extension, undefined otherwise.
getExtension(mimeType) ==
  CASE mimeType = "image/png" -> Some("png")
    [] mimeType = "image/jpeg" -> Some("jpg")
    [] mimeType = "video/mp4" -> Some("mp4")
    [] mimeType = "text/plain" -> Some("txt")
    [] OTHER -> None

\* nanoid(): 21 characters of the URL-safe alphabet, chosen at random.
NanoIdLen == 21
RECURSIVE Repeat(_, _)
Repeat(c, n) ==
  IF n = 0 THEN ""
  ELSE IF n = 1 THEN c
  ELSE Repeat(c, n \div 2) \o Repeat(c, n - (n \div 2))
NanoIds == {Repeat("A", NanoIdLen), Repeat("z", NanoIdLen)}

\* A generated name built on the filename as it was sent.
generateUniqueFilenameUnsanitized(originalFilename, id) ==
  originalFilename \o "_" \o id

\* A generated name that puts the id after the whole sanitized name.
generateUniqueFilenameIdLast(originalFilename, id) ==
  sanitizeFilename(originalFilename) \o "_" \o id

generateUniqueFilename(originalFilename, id) ==
  LET sanitized == sanitizeFilename(originalFilename)
      dot == LastIndexOf(sanitized, ".")
      \* /\.([^.]+)$/ matches when the last dot is followed by a character
      extMatch == dot > 0 /\ dot < Len(sanitized)
      extension0 == IF extMatch THEN SubSeq(sanitized, dot, Len(sanitized)) ELSE ""
      basename0 == IF extension0 # "" THEN SubSeq(sanitized, 1, dot - 1) ELSE sanitized
      mimeExt == getExtension(basename0)
      extension == IF extension0 = "" /\ Truthy(mimeExt)
                   THEN "." \o Get(mimeExt) ELSE extension0
      basename == IF EndsWith(basename0, ".") /\ extension = ""
                  THEN SubSeq(basename0, 1, Len(basename0) - 1) ELSE basename0
  IN basename \o "_" \o id \o extension

(***************************************************************************)
(* Content hash (hono/utils/crypto sha256): hex digest of the payload      *)
(***************************************************************************)
sha256(body) ==
  CASE body = "hello" -> "2cf24dba"
    [] body = "world" -> "486ea462"
    [] body = "" -> "e3b0c442"
    [] OTHER -> "ffffffff"

(***************************************************************************)
(* Content classifier (upload handler, prefix selection)                   *)
(***************************************************************************)
\* A classifier that accepts the prefixes with a capital first letter or in
\* capitals too.
ClassifyIgnoringCase(mimeType) ==
  IF \E p \in {"image/", "Image/", "IMAGE/"} : StartsWith(mimeType, p) THEN "images"
  ELSE IF \E p \in {"video/", "Video/", "VIDEO/"} : StartsWith(mimeType, p) THEN "videos"
  ELSE "files"

\* The classifier of the earlier lineage: images unless a video.
ClassifyImagesUnlessVideo(mimeType) ==
  IF StartsWith(mimeType, "video/") THEN "videos" ELSE "images"

Classify(mimeType) ==
  IF StartsWith(mimeType, "image/") THEN "images"
  ELSE IF StartsWith(mimeType, "video/") THEN "videos"
  ELSE "files"

IsImage(mimeType) == StartsWith(mimeType, "image/")

(***************************************************************************)
(* URL construction                                                        *)
(***************************************************************************)
TransformationParams == "fit=contain,width=1200,format=auto"
PreviewOptimized == "Preview-Optimized URL"

\* new URL(c.req.url).protocol: the scheme with its colon
UrlProtocol(url) == SubSeq(url, 1, IndexOfFrom(url, ":", 1))

\* new URL(url).pathname: what follows the authority
UrlPathname(url) ==
  LET colon == IndexOfFrom(url, ":", 1)
      slash == IndexOfFrom(url, "/", colon + 3)
  IN IF slash = 0 THEN "/" ELSE SubSeq(url, slash, Len(url))

\* new URL(url).host: the authority
UrlHost(url) ==
  LET colon == IndexOfFrom(url, ":", 1)
      slash == IndexOfFrom(url, "/", colon + 3)
  IN SubSeq(url, colon + 3, IF slash = 0 THEN Len(url) ELSE slash - 1)

ImageHost(e) == OrElse(e.IMAGE_HOSTNAME, "images.localhost")
FilesHost(e) == OrElse(e.FILES_HOSTNAME, "files.localhost")

\* A base URL that takes the file host for images and the image host for
\* everything else.
BaseUrlSwappedHosts(e, protocol, isImage) ==
  protocol \o "//" \o (IF isImage THEN FilesHost(e) ELSE ImageHost(e))

\* baseUrl of the upload handler
BaseUrl(e, protocol, isImage) ==
  protocol \o "//" \o (IF isImage THEN ImageHost(e) ELSE FilesHost(e))

TransformedUrl(e, protocol, key) ==
  LET imageServeHost == protocol \o "//" \o ImageHost(e)
      sourceImageUrl == imageServeHost \o "/" \o key
  IN imageServeHost \o "/cdn-cgi/image/" \o TransformationParams \o "/" \o sourceImageUrl

\* A duplicate branch that builds its direct URL on the file host whatever the
\* partition.
DuplicateUrlOnFilesHost(e, protocol, isImage, key, url_preference) ==
  IF isImage /\ url_preference = Some(PreviewOptimized)
  THEN TransformedUrl(e, protocol, key)
  ELSE protocol \o "//" \o FilesHost(e) \o "/" \o key

\* A duplicate branch that returns the key without host or protocol.
DuplicateUrlWithoutHost(e, protocol, isImage, key, url_preference) == "/" \o key

\* URL returned on the duplicate branch
DuplicateUrl(e, protocol, isImage, key, url_preference) ==
  IF isImage /\ url_preference = Some(PreviewOptimized)
  THEN TransformedUrl(e, protocol, key)
  ELSE BaseUrl(e, protocol, isImage) \o "/" \o key

\* A final URL that ignores url_preference.
FinalUrlAlwaysDirect(e, protocol, isImage, r2Key, url_preference) ==
  BaseUrl(e, protocol, isImage) \o "/" \o r2Key

\* URL returned after a put
FinalUrl(e, protocol, isImage, r2Key, url_preference) ==
  LET urlPreference == OrElse(url_preference, "Original URL")
  IN IF isImage /\ urlPreference = PreviewOptimized
     THEN TransformedUrl(e, protocol, r2Key)
     ELSE BaseUrl(e, protocol, isImage) \o "/" \o r2Key

(***************************************************************************)
(* The bucket (R2Bucket binding): key -> stored object                     *)
(***************************************************************************)
ListLimit == 1000

Min(a, b) == IF a < b THEN a ELSE b

\* The keys of a set in listing order.
RECURSIVE SortKeys(_)
SortKeys(S) ==
  IF S = {} THEN <<>>
  ELSE LET first == CHOOSE k \in S : \A j \in S \ {k} : StrLess(k, j)
       IN <<first>> \o SortKeys(S \ {first})

\* A listing that ignores the prefix.
ListingWholeBucket(b, prefix, cursor) ==
  SortKeys({k \in DOMAIN b : IsSome(cursor) => StrLess(Get(cursor), k)})

\* bucket.list({prefix, limit, cursor}): the keys under the prefix that follow
\* the cursor, in listing order.
Listing(b, prefix, cursor) ==
  SortKeys({k \in DOMAIN b : StartsWith(k, prefix)
                             /\ (IsSome(cursor) => StrLess(Get(cursor), k))})

\* A conditional put: it writes nothing when the partition of the key already
\* holds an object with the same originalHash.
BucketPutUnlessHashStored(b, key, obj) ==
  IF \E k \in DOMAIN b :
       /\ SubSeq(k, 1, IndexOfFrom(k, "/", 1)) = SubSeq(key, 1, IndexOfFrom(key, "/", 1))
       /\ b[k].customMetadata = obj.customMetadata
            \/ (IsSome(b[k].customMetadata) /\ IsSome(obj.customMetadata)
                /\ Get(b[k].customMetadata).originalHash
                     = Get(obj.customMetadata).originalHash)
  THEN b
  ELSE [k \in DOMAIN b \cup {key} |-> IF k = key THEN obj ELSE b[k]]

\* A put that replaces what its partition held: the objects under the other
\* keys of the partition are dropped.
BucketPutReplacingPartition(b, key, obj) ==
  [k \in {j \in DOMAIN b : SubSeq(j, 1, IndexOfFrom(j, "/", 1))
                             # SubSeq(key, 1, IndexOfFrom(key, "/", 1))} \cup {key}
     |-> IF k = key THEN obj ELSE b[k]]

\* bucket.put(key, value, {httpMetadata, customMetadata})
BucketPut(b, key, obj) ==
  [k \in DOMAIN b \cup {key} |-> IF k = key THEN obj ELSE b[k]]

\* bucket.head(key) / bucket.get(key): the object or null
BucketGet(b, key) == IF key \in DOMAIN b THEN Some(b[key]) ELSE None

\* A scan that reads no hash from the metadata.
OriginalHashMissing(head) == None

\* A comparison that falls back to the digest of the stored bytes when the
\* object carries no originalHash.
OriginalHashOrDigest(head) ==
  IF ~IsSome(head) THEN None
  ELSE IF IsSome(Get(head).customMetadata)
  THEN Some(Get(Get(head).customMetadata).originalHash)
  ELSE Some(sha256(Get(head).body))

\* metadata?.customMetadata?.originalHash
OriginalHashOf(head) ==
  IF IsSome(head) /\ IsSome(Get(head).customMetadata)
  THEN Some(Get(Get(head).customMetadata).originalHash)
  ELSE None

(***************************************************************************)
(* Inputs: what a client may send and how the worker may be configured     *)
(***************************************************************************)
Secret == "test-secret-key-12345"

\* The deployment's bindings (AUTH_KEY, IMAGE_HOSTNAME, FILES_HOSTNAME).
\* A binding that is not set is None; the secret may be set, empty or unset.
Env(authKey, imageHostname, filesHostname) ==
  [AUTH_KEY |-> authKey, IMAGE_HOSTNAME |-> imageHostname, FILES_HOSTNAME |-> filesHostname]

Envs ==
  { Env(Some(Secret), Some("i.io"), Some("f.io")),
    Env(Some(Secret), None, None),
    Env(Some(""), Some("i.io"), Some("f.io")),
    Env(None, Some("i.io"), Some("f.io")) }

\* Values of the X-Auth-Key header: absent, empty, wrong, right.
AuthHeaders == {None, Some(""), Some("wrong-key"), Some(Secret)}

File(body, type, name) == [body |-> body, type |-> type, name |-> name]

Form(file, filename, url_preference) ==
  [file |-> file, filename |-> filename, url_preference |-> url_preference]

MissingFileForm == Form(None, Some("x.png"), None)

\* Form data of the uploads that run one at a time: the same bytes as two
\* image types under two filenames and every preference, the same bytes in
\* each partition, and other bytes as an image and as a file without a name.
SeqForms ==
  { Form(Some(File("hello", t, "my pic.png")), fn, pref) :
      t \in {"image/png", "image/jpeg"},
      fn \in {None, Some("a/b c.txt")},
      pref \in {None, Some(PreviewOptimized)} }
  \cup
  { Form(Some(File("hello", "image/png", "my pic.png")), None, Some("Original URL")) }
  \cup
  { Form(Some(File("hello", t, "my pic.png")), None, Some(PreviewOptimized)) :
      t \in {"video/mp4", "text/plain"} }
  \cup
  { Form(Some(File("world", "image/png", "my pic.png")), None, None),
    Form(Some(File("world", "text/plain", "")), Some(""), None) }
  \cup {MissingFileForm}

\* Form data of the uploads that overlap.
ConcForms ==
  { Form(Some(File(b, t, "my pic.png")), None, None) :
      b \in {"hello", "world"}, t \in {"image/png", "text/plain"} }
  \cup {MissingFileForm}

\* Request URLs of PUT /upload.
HttpUrl == "http://up.io/upload"
HttpsUrl == "https://up.io/upload"
OtherHostUrl == "http://other.io/upload"

\* What an upload request carries: its form data and its URL. Uploads that
\* run one at a time arrive over http with every form, over https with the
\* image under each preference, and at another host with the image and with
\* the video; uploads that overlap arrive over http.
SeqUploads ==
  (SeqForms \X {HttpUrl})
  \cup
  { <<Form(Some(File("hello", "image/png", "my pic.png")), None, pref), HttpsUrl>> :
      pref \in {None, Some(PreviewOptimized)} }
  \cup
  { <<Form(Some(File("hello", "image/png", "my pic.png")), None, None), OtherHostUrl>>,
    <<Form(Some(File("hello", "video/mp4", "my pic.png")), None,
           Some(PreviewOptimized)), OtherHostUrl>> }
ConcUploads == ConcForms \X {HttpUrl}

\* Paths a client may GET besides the ones uploads returned.
ProbePaths == {"/images/none.png", "/documents/some-key.doc"}

\* Failures of bucket.put: an Error with a message, or some other thrown value.
PutErrors == {Some("R2 unavailable"), None}

(***************************************************************************)
(* Requests                                                                *)
(***************************************************************************)
Text(status, body) ==
  [status |-> status, body |-> body, contentType |-> Some("text/plain; charset=UTF-8")]

\* A request's own memory, and what is remembered of it once it is answered:
\* stages are the pipeline states it went through, calls the bucket calls it
\* made, snap the bucket contents when it arrived, thrown the value that
\* bucket.put threw at it, failed the call of it that failed.
IdleReq ==
  [ pc |-> "idle", method |-> "", path |-> "", authKey |-> None, url |-> "",
    data |-> None, originalFilename |-> "", fileHash |-> None, prefix |-> "",
    isImage |-> FALSE, protocol |-> "", cursor |-> None, page |-> <<>>,
    duplicate |-> None, r2Key |-> None, res |-> None,
    stages |-> <<>>, calls |-> <<>>, snap |-> <<>>, arrived |-> 0,
    thrown |-> None, failed |-> None ]

Pcs == {"idle", "handler", "list", "head", "put", "done"}

TypeOK ==
  /\ env \in Envs
  /\ now \in 0..MaxReqs
  /\ \A r \in Reqs : req[r].pc \in Pcs

\* No helper call is being looked at.
NoCall ==
  [name |-> "", mimeType |-> "", sanitized |-> None, uniqueFilename |-> None,
   prefix |-> None]

Init ==
  /\ env \in Envs
  /\ bucket = <<>>
  /\ now = 0
  /\ req = [r \in Reqs |-> IdleReq]
  /\ helper = NoCall

InFlight(r) == req[r].pc \notin {"idle", "done"}

\* A request arrives: slots are used in order; when sequential, only while no
\* other request is being handled.
CanArrive(r, sequential) ==
  /\ req[r].pc = "idle"
  /\ r > 1 => req[r - 1].pc # "idle"
  /\ sequential => \A q \in Reqs : ~InFlight(q)

\* The request goes on with some of its fields changed.
Update(r, fields) ==
  req' = [req EXCEPT ![r] = fields @@ req[r]]

\* The request is answered.
Respond(r, fields, res, stages) ==
  Update(r, [pc |-> "done", res |-> Some(res),
             stages |-> req[r].stages \o stages] @@ fields)

\* The request is answered with an error: of its own memory only the header,
\* the calls and the stages are remembered.
Failed(r, res, calls) ==
  [pc |-> "done", res |-> Some(res), calls |-> calls,
   method |-> "PUT", path |-> "/upload",
   authKey |-> req[r].authKey, stages |-> req[r].stages,
   snap |-> req[r].snap, arrived |-> req[r].arrived] @@ IdleReq

Fail(r, res, calls, call) ==
  req' = [req EXCEPT ![r] = [failed |-> Some(call)] @@ Failed(r, res, calls)]

(***************************************************************************)
(* PUT /upload: the auth middleware                                        *)
(***************************************************************************)
\* A middleware that only checks that a key was sent.
AuthorizedIfPresent(providedKey, expectedKey) ==
  Truthy(providedKey)

\* A check that only compares the header with the configured secret.
AuthorizedIfEqual(providedKey, expectedKey) ==
  providedKey = expectedKey

Authorized(providedKey, expectedKey) ==
  ~(~Truthy(providedKey) \/ providedKey # expectedKey)

Middleware(r, sequential) ==
  /\ CanArrive(r, sequential)
  /\ now' = now + 1
  /\ \E providedKey \in AuthHeaders :
       LET fields == [method |-> "PUT", path |-> "/upload", authKey |-> providedKey,
                      snap |-> bucket, arrived |-> now']
       IN IF Authorized(providedKey, env.AUTH_KEY)
          THEN Update(r, [pc |-> "handler"] @@ fields)
          ELSE Respond(r, fields, Text(401, "Unauthorized"), <<>>)
  /\ UNCHANGED <<env, bucket, helper>>

(***************************************************************************)
(* PUT /upload: the handler up to the duplicate check (parse the form,     *)
(* choose the filename, hash the payload, classify it, choose the host)    *)
(***************************************************************************)
\* The condition of the earlier lineage: a file and a filename are both required.
MissingFileOrFilename(data) == ~IsSome(data.file) \/ ~Truthy(data.filename)

\* !data?.file
MissingFile(data) == ~IsSome(data.file)

\* A rejection that comes after the payload was hashed.
MissingFileStepAfterHash(r, data) ==
  Respond(r, [data |-> Some(data), fileHash |-> Some(sha256(""))],
          Text(400, "Missing \"file\" in form data"), <<"Received", "Hashed">>)

\* A rejection that comes after the bucket was listed.
MissingFileStepAfterList(r, data) ==
  Respond(r, [data |-> Some(data), calls |-> <<"list">>],
          Text(400, "Missing \"file\" in form data"), <<>>)

\* return c.text('Missing "file" in form data', 400)
MissingFileStep(r, data) ==
  Respond(r, [data |-> Some(data)], Text(400, "Missing \"file\" in form data"), <<>>)

\* A hash failure that is noticed only after the partition was listed.
HashFailureStepAfterList(r) ==
  Respond(r, [fileHash |-> None, failed |-> Some("hash"), calls |-> <<"list">>],
          Text(500, "Failed to calculate file hash"),
          <<"Received", "Hashed", "DuplicateChecked">>)

\* if (!fileHash) return c.text('Failed to calculate file hash', 500)
HashFailureStep(r) ==
  Respond(r, [fileHash |-> None, failed |-> Some("hash")],
          Text(500, "Failed to calculate file hash"), <<"Received">>)

\* A filename taken from the form field alone.
OriginalFilenameFromFieldOnly(data) == OrElse(data.filename, "untitled")

OriginalFilename(data) ==
  LET providedFilename == OrElse(data.filename, "")
      fileName == Get(data.file).name
  IN IF providedFilename # "" THEN providedFilename
     ELSE IF fileName # "" THEN fileName
     ELSE "untitled"

Handler(r, uploads) ==
  /\ req[r].pc = "handler"
  /\ \E upload \in uploads, hashOk \in BOOLEAN :
       LET data == upload[1]
           url == upload[2]
       IN IF MissingFile(data)
          THEN MissingFileStep(r, data)
          ELSE IF ~hashOk
          THEN HashFailureStep(r)
          ELSE LET file == Get(data.file)
               IN Update(r, [pc |-> "list", data |-> Some(data), url |-> url,
                             originalFilename |-> OriginalFilename(data),
                             fileHash |-> Some(sha256(file.body)),
                             prefix |-> Classify(file.type),
                             isImage |-> IsImage(file.type),
                             protocol |-> UrlProtocol(url),
                             stages |-> <<"Received", "Hashed">>])
  /\ UNCHANGED <<env, bucket, now, helper>>

(***************************************************************************)
(* findDuplicateFile: one bucket.list call                                 *)
(***************************************************************************)
\* A page that is walked from its last object to its first.
ListedObjectsBackwards(keys, n) == [i \in 1..n |-> keys[n + 1 - i]]

\* listed.objects: the first n of the keys left, in listing order.
ListedObjects(keys, n) == SubSeq(keys, 1, n)

\* A listing that never reports a continuation.
ListedCursorDropped(keys, n) == None

\* listed.cursor: a listing that returned the first n of the keys left carries
\* a cursor exactly when keys are left after them.
ListedCursor(keys, n) == IF n < Len(keys) THEN Some(keys[n]) ELSE None

List(r) ==
  /\ req[r].pc = "list"
  /\ LET keys == Listing(bucket, req[r].prefix, req[r].cursor)
         calls == Append(req[r].calls, "list")
     IN IF keys = <<>>
        THEN Update(r, [pc |-> "put", page |-> <<>>, cursor |-> None, calls |-> calls,
                        stages |-> Append(req[r].stages, "DuplicateChecked")])
        ELSE \E n \in 1..Min(ListLimit, Len(keys)) :
               Update(r, [pc |-> "head", page |-> ListedObjects(keys, n),
                          cursor |-> ListedCursor(keys, n),
                          calls |-> calls])
  /\ UNCHANGED <<env, bucket, now, helper>>

(***************************************************************************)
(* findDuplicateFile: one bucket.head call and the comparison; on a match  *)
(* the handler's duplicate branch answers                                  *)
(***************************************************************************)
\* A scan whose match does not keep the handler from writing: the key found is
\* remembered and the handler goes on to its put.
HeadStepPutsOnMatch(r) ==
  LET key == Head(req[r].page)
      metadata == BucketGet(bucket, key)
      calls == Append(req[r].calls, "head")
      rest == Tail(req[r].page)
  IN IF OriginalHashOf(metadata) = req[r].fileHash
     THEN Update(r, [pc |-> "put", duplicate |-> Some(key), calls |-> calls,
                     page |-> <<>>, cursor |-> None,
                     stages |-> Append(req[r].stages, "DuplicateChecked")])
     ELSE IF rest # <<>>
     THEN Update(r, [page |-> rest, calls |-> calls])
     ELSE IF Truthy(req[r].cursor)
     THEN Update(r, [pc |-> "list", page |-> rest, calls |-> calls])
     ELSE Update(r, [pc |-> "put", page |-> rest, calls |-> calls,
                     stages |-> Append(req[r].stages, "DuplicateChecked")])

HeadStep(r) ==
  LET key == Head(req[r].page)
      metadata == BucketGet(bucket, key)
      calls == Append(req[r].calls, "head")
      rest == Tail(req[r].page)
  IN IF OriginalHashOf(metadata) = req[r].fileHash
     THEN Respond(r, [duplicate |-> Some(key), calls |-> calls, page |-> <<>>,
                      cursor |-> None],
                  Text(200, DuplicateUrl(env, req[r].protocol, req[r].isImage, key,
                                         Get(req[r].data).url_preference)),
                  <<"DuplicateChecked", "Deduplicated", "Responded">>)
     ELSE IF rest # <<>>
     THEN Update(r, [page |-> rest, calls |-> calls])
     ELSE IF Truthy(req[r].cursor)
     THEN Update(r, [pc |-> "list", page |-> rest, calls |-> calls])
     ELSE Update(r, [pc |-> "put", page |-> rest, calls |-> calls,
                     stages |-> Append(req[r].stages, "DuplicateChecked")])

\* A duplicate branch that records the new request's filename on the object
\* it found.
HeadObjectRewrites(r) ==
  /\ req[r].pc = "head"
  /\ HeadStep(r)
  /\ LET key == Head(req[r].page)
         metadata == BucketGet(bucket, key)
     IN bucket' =
          IF OriginalHashOf(metadata) = req[r].fileHash
          THEN [bucket EXCEPT ![key].customMetadata =
                  Some([Get(@) EXCEPT !.originalFilename = req[r].originalFilename])]
          ELSE bucket
  /\ UNCHANGED <<env, now, helper>>

\* A duplicate branch that sets the content type of the object it found to
\* the type of the new request.
HeadObjectRetypes(r) ==
  /\ req[r].pc = "head"
  /\ HeadStep(r)
  /\ LET key == Head(req[r].page)
         metadata == BucketGet(bucket, key)
     IN bucket' =
          IF OriginalHashOf(metadata) = req[r].fileHash
          THEN [bucket EXCEPT ![key].httpMetadata.contentType =
                  Get(Get(req[r].data).file).type]
          ELSE bucket
  /\ UNCHANGED <<env, now, helper>>

HeadObject(r) ==
  /\ req[r].pc = "head"
  /\ HeadStep(r)
  /\ UNCHANGED <<env, bucket, now, helper>>

\* The answer to a request whose handler threw (the app has no onError).
InternalServerError == Text(500, "Internal Server Error")

\* A failed bucket.list or bucket.head call that is made once more before the
\* failure is let through.
ScanFailRetriedOnce(r) ==
  /\ req[r].pc \in {"list", "head"}
  /\ IF IsSome(req[r].failed)
     THEN Fail(r, InternalServerError, Append(req[r].calls, req[r].pc), req[r].pc)
     ELSE Update(r, [failed |-> Some(req[r].pc),
                     calls |-> Append(req[r].calls, req[r].pc)])
  /\ UNCHANGED <<env, bucket, now, helper>>

\* A failed bucket.list or bucket.head call that is taken for 'not found'.
ScanFailTakenForNotFound(r) ==
  /\ req[r].pc \in {"list", "head"}
  /\ Update(r, [pc |-> "put", failed |-> Some(req[r].pc), page |-> <<>>,
                cursor |-> None, calls |-> Append(req[r].calls, req[r].pc),
                stages |-> Append(req[r].stages, "DuplicateChecked")])
  /\ UNCHANGED <<env, bucket, now, helper>>

\* A bucket.list or bucket.head call throws: nothing catches it.
ScanFail(r) ==
  /\ req[r].pc \in {"list", "head"}
  /\ Fail(r, InternalServerError, Append(req[r].calls, req[r].pc), req[r].pc)
  /\ UNCHANGED <<env, bucket, now, helper>>

(***************************************************************************)
(* PUT /upload: key generation, metadata, bucket.put and the answer        *)
(***************************************************************************)
\* Metadata that records the sanitized filename instead of the original one.
StoredObjectSanitizedName(body, mimeType, fileHash, originalFilename, timestamp) ==
  [ body |-> body,
    httpMetadata |-> [contentType |-> mimeType],
    customMetadata |-> Some([ originalHash |-> fileHash,
                              originalFilename |-> sanitizeFilename(originalFilename),
                              uploadTimestamp |-> NumberToString(timestamp),
                              mimeType |-> mimeType ]) ]

StoredObject(body, mimeType, fileHash, originalFilename, timestamp) ==
  [ body |-> body,
    httpMetadata |-> [contentType |-> mimeType],
    customMetadata |-> Some([ originalHash |-> fileHash,
                              originalFilename |-> originalFilename,
                              uploadTimestamp |-> NumberToString(timestamp),
                              mimeType |-> mimeType ]) ]

R2Key(prefix, uniqueFilename) == prefix \o "/" \o uniqueFilename

Put(r) ==
  /\ req[r].pc = "put"
  /\ \E id \in NanoIds :
       LET file == Get(Get(req[r].data).file)
           r2Key == R2Key(req[r].prefix, generateUniqueFilename(req[r].originalFilename, id))
       IN /\ bucket' = BucketPut(bucket, r2Key,
                         StoredObject(file.body, file.type, Get(req[r].fileHash),
                                      req[r].originalFilename, now))
          /\ Respond(r, [r2Key |-> Some(r2Key), calls |-> Append(req[r].calls, "put")],
                     Text(200, FinalUrl(env, req[r].protocol, req[r].isImage, r2Key,
                                        Get(req[r].data).url_preference)),
                     <<"Persisted", "Responded">>)
  /\ UNCHANGED <<env, now, helper>>

\* A catch block that hides what was thrown.
PutFailureWithoutDetail(e) == Text(500, "Failed to upload to R2")

\* The answer of the catch block: e is the message of the Error thrown, or
\* None when the thrown value is not an Error.
PutFailure(e) ==
  Text(500, IF IsSome(e) THEN "Failed to upload to R2: " \o Get(e)
            ELSE "Failed to upload to R2 due to an unknown error")

\* A put that throws after the object was written.
PutFailAfterWrite(r) ==
  /\ req[r].pc = "put"
  /\ \E e \in PutErrors, id \in NanoIds :
       LET file == Get(Get(req[r].data).file)
           r2Key == R2Key(req[r].prefix, generateUniqueFilename(req[r].originalFilename, id))
       IN /\ bucket' = BucketPut(bucket, r2Key,
                         StoredObject(file.body, file.type, Get(req[r].fileHash),
                                      req[r].originalFilename, now))
          /\ req' = [req EXCEPT ![r] =
                       [thrown |-> Some(e), failed |-> Some("put")]
                         @@ Failed(r, PutFailure(e), Append(req[r].calls, "put"))]
  /\ UNCHANGED <<env, now, helper>>

\* bucket.put throws: the handler catches it.
PutFail(r) ==
  /\ req[r].pc = "put"
  /\ \E e \in PutErrors :
       req' = [req EXCEPT ![r] =
                 [thrown |-> Some(e), failed |-> Some("put")]
                   @@ Failed(r, PutFailure(e), Append(req[r].calls, "put"))]
  /\ UNCHANGED <<env, bucket, now, helper>>

(***************************************************************************)
(* GET /:type(images|videos|files)/:key                                    *)
(***************************************************************************)
\* The segments of a path that starts with '/'.
RECURSIVE Segments(_)
Segments(path) ==
  LET next == IndexOfFrom(path, "/", 2)
  IN IF next = 0 THEN <<SubSeq(path, 2, Len(path))>>
     ELSE <<SubSeq(path, 2, next - 1)>> \o Segments(SubSeq(path, next, Len(path)))

Partitions == {"images", "videos", "files"}

RouteMatches(path) ==
  LET segs == Segments(path)
  IN Len(segs) = 2 /\ segs[1] \in Partitions /\ segs[2] # ""

\* The app's not-found handler (no route matched).
NotFound == Text(404, "404 Not Found")

\* A handler that says which object is missing.
ContextNotFoundNamed == Text(404, "Object Not Found")

\* c.notFound(): the same not-found handler, called by the GET handler.
ContextNotFound == NotFound

\* The paths of the URLs the uploads so far have returned.
ReturnedPaths ==
  {UrlPathname(Get(req[q].res).body) :
     q \in {p \in Reqs : req[p].method = "PUT" /\ req[p].pc = "done"
                         /\ Get(req[p].res).status = 200}}

\* A handler that looks the object up under the key parameter alone.
RetrieveKeyWithoutType(type, key) == key

\* r2Key of the GET handler
RetrieveKey(type, key) == type \o "/" \o key

\* A GET handler that reads the object's metadata first and stamps the object
\* it serves.
RetrieveStamping(r, sequential) ==
  /\ CanArrive(r, sequential)
  /\ now' = now + 1
  /\ \E path \in ReturnedPaths \cup ProbePaths :
       LET segs == Segments(path)
           r2Key == RetrieveKey(segs[1], segs[2])
           object == BucketGet(bucket, r2Key)
           fields == [method |-> "GET", path |-> path, snap |-> bucket, arrived |-> now']
       IN IF ~RouteMatches(path)
          THEN Respond(r, fields, NotFound, <<>>) /\ bucket' = bucket
          ELSE IF ~IsSome(object)
          THEN Respond(r, [calls |-> <<"head", "get">>] @@ fields, ContextNotFound, <<>>)
               /\ bucket' = bucket
          ELSE /\ Respond(r, [calls |-> <<"head", "get">>] @@ fields,
                          [status |-> 200, body |-> Get(object).body,
                           contentType |-> Some(Get(object).httpMetadata.contentType)],
                          <<>>)
               /\ bucket' = [bucket EXCEPT ![r2Key].customMetadata = None]
  /\ UNCHANGED <<env, helper>>

\* A GET route behind the check of the upload route.
RetrieveGated(r, sequential, paths, headers) ==
  /\ CanArrive(r, sequential)
  /\ now' = now + 1
  /\ \E path \in paths, providedKey \in headers :
       LET segs == Segments(path)
           r2Key == RetrieveKey(segs[1], segs[2])
           object == BucketGet(bucket, r2Key)
           fields == [method |-> "GET", path |-> path, authKey |-> providedKey,
                      snap |-> bucket, arrived |-> now']
       IN IF ~RouteMatches(path)
          THEN Respond(r, fields, NotFound, <<>>)
          ELSE IF ~Authorized(providedKey, env.AUTH_KEY)
          THEN Respond(r, fields, Text(401, "Unauthorized"), <<>>)
          ELSE IF ~IsSome(object)
          THEN Respond(r, [calls |-> <<"get">>] @@ fields, ContextNotFound, <<>>)
          ELSE Respond(r, [calls |-> <<"get">>] @@ fields,
                       [status |-> 200, body |-> Get(object).body,
                        contentType |-> Some(Get(object).httpMetadata.contentType)],
                       <<>>)
  /\ UNCHANGED <<env, bucket, helper>>

\* GET <path> for one of the paths, sent with one of the X-Auth-Key headers:
\* the route reads no header.
RetrieveWith(r, sequential, paths, headers) ==
  /\ CanArrive(r, sequential)
  /\ now' = now + 1
  /\ \E path \in paths, providedKey \in headers :
       LET segs == Segments(path)
           r2Key == RetrieveKey(segs[1], segs[2])
           object == BucketGet(bucket, r2Key)
           fields == [method |-> "GET", path |-> path, authKey |-> providedKey,
                      snap |-> bucket, arrived |-> now']
       IN IF ~RouteMatches(path)
          THEN Respond(r, fields, NotFound, <<>>)
          ELSE IF ~IsSome(object)
          THEN Respond(r, [calls |-> <<"get">>] @@ fields, ContextNotFound, <<>>)
          ELSE Respond(r, [calls |-> <<"get">>] @@ fields,
                       [status |-> 200, body |-> Get(object).body,
                        contentType |-> Some(Get(object).httpMetadata.contentType)],
                       <<>>)
  /\ UNCHANGED <<env, bucket, helper>>

\* A GET without an X-Auth-Key header for a path an upload was answered with
\* or a path no upload was answered with.
Retrieve(r, sequential) ==
  RetrieveWith(r, sequential, ReturnedPaths \cup ProbePaths, {None})

\* bucket.get throws: nothing catches it.
RetrieveFail(r, sequential) ==
  /\ CanArrive(r, sequential)
  /\ now' = now + 1
  /\ \E path \in ReturnedPaths \cup ProbePaths :
       /\ RouteMatches(path)
       /\ Respond(r, [method |-> "GET", path |-> path, snap |-> bucket,
                      arrived |-> now', calls |-> <<"get">>, failed |-> Some("get")],
                  InternalServerError, <<>>)
  /\ UNCHANGED <<env, bucket, helper>>

(***************************************************************************)
(* Specifications                                                          *)
(***************************************************************************)
\* Requests overlap freely.
Next ==
  \E r \in Reqs :
    \/ Middleware(r, FALSE)
    \/ Handler(r, ConcUploads)
    \/ List(r)
    \/ HeadObject(r)
    \/ ScanFail(r)
    \/ Put(r)
    \/ PutFail(r)
    \/ Retrieve(r, FALSE)

Spec == Init /\ [][Next]_vars

\* Requests run one after the other.
SeqNext ==
  \E r \in Reqs :
    \/ Middleware(r, TRUE)
    \/ Handler(r, SeqUploads)
    \/ List(r)
    \/ HeadObject(r)
    \/ ScanFail(r)
    \/ Put(r)
    \/ PutFail(r)
    \/ Retrieve(r, TRUE)

SeqSpec == Init /\ [][SeqNext]_vars

(***************************************************************************)
(* Overlapping requests whose calls all return or fail                     *)
(***************************************************************************)
\* The next step of a request that is being handled: each of its awaited
\* calls returns or throws.
Progress(r) ==
  \/ Handler(r, ConcUploads)
  \/ List(r)
  \/ HeadObject(r)
  \/ ScanFail(r)
  \/ PutFail(r)
  \/ Put(r)

LiveNext ==
  \E r \in Reqs :
    \/ Middleware(r, FALSE)
    \/ Handler(r, ConcUploads)
    \/ List(r)
    \/ HeadObject(r)
    \/ ScanFail(r)
    \/ Put(r)
    \/ PutFail(r)
    \/ Retrieve(r, FALSE)
    \/ RetrieveFail(r, FALSE)

LiveSpec == Init /\ [][LiveNext]_vars /\ \A r \in Reqs : WF_vars(Progress(r))

(***************************************************************************)
(* Uploads into a bucket that earlier uploads have filled                  *)
(***************************************************************************)
\* What the upload of a file under a name left in the bucket at clock
\* value 0: its key and its object.
StoredUpload(prefix, name, id, body, mimeType) ==
  <<R2Key(prefix, generateUniqueFilename(name, id)),
    StoredObject(body, mimeType, sha256(body), name, 0)>>

\* Earlier uploads into the images partition: the same bytes stored twice by
\* two uploads that overlapped, and other bytes under a key that is listed
\* before both.
EarlierUploads ==
  { StoredUpload("images", "my pic.png", Repeat("A", NanoIdLen), "hello", "image/png"),
    StoredUpload("images", "my pic.png", Repeat("z", NanoIdLen), "hello", "image/png"),
    StoredUpload("images", "a/b c.txt", Repeat("A", NanoIdLen), "world", "image/png") }

BucketOf(S) ==
  IF S = {} THEN <<>>
  ELSE [k \in {e[1] : e \in S} |-> (CHOOSE e \in S : e[1] = k)[2]]

ScanUploads ==
  { <<Form(Some(File(b, "image/png", "my pic.png")), None, None), HttpUrl>> :
      b \in {"hello", "world"} }

ScanInit ==
  /\ env = Env(Some(Secret), Some("i.io"), Some("f.io"))
  /\ bucket \in {BucketOf(S) : S \in SUBSET EarlierUploads}
  /\ now = 0
  /\ req = [r \in Reqs |-> IdleReq]
  /\ helper = NoCall

ScanNext ==
  \E r \in Reqs :
    \/ Middleware(r, TRUE)
    \/ Handler(r, ScanUploads)
    \/ List(r)
    \/ HeadObject(r)
    \/ ScanFail(r)
    \/ Put(r)
    \/ PutFail(r)

ScanSpec == ScanInit /\ [][ScanNext]_vars

(***************************************************************************)
(* Uploads into a bucket that also holds an object of the older lineage,   *)
(* while objects may be removed from the bucket by other means             *)
(***************************************************************************)
\* What an upload of the older lineage left in the bucket: a key
\* '<prefix>/<timestamp>_<sanitized name>' and an object with a content type
\* and no custom metadata.
LegacyUpload(prefix, name, timestamp, body, mimeType) ==
  <<R2Key(prefix, NumberToString(timestamp) \o "_" \o sanitizeFilename(name)),
    [ body |-> body,
      httpMetadata |-> [contentType |-> mimeType],
      customMetadata |-> None ]>>

LegacyStore ==
  { LegacyUpload("images", "my pic.png", 1678886400, "hello", "image/png"),
    StoredUpload("images", "my pic.png", Repeat("z", NanoIdLen), "hello", "image/png") }

LegacyInit ==
  /\ env = Env(Some(Secret), Some("i.io"), Some("f.io"))
  /\ bucket \in {BucketOf(S) : S \in SUBSET LegacyStore}
  /\ now = 0
  /\ req = [r \in Reqs |-> IdleReq]
  /\ helper = NoCall

\* The object under the key that request r is about to look up is removed
\* from the bucket by something other than the worker, after it was listed:
\* the bucket.head call that follows returns null.
ObjectRemoved(r) ==
  /\ req[r].pc = "head"
  /\ Head(req[r].page) \in DOMAIN bucket
  /\ bucket' = [k \in DOMAIN bucket \ {Head(req[r].page)} |-> bucket[k]]
  /\ UNCHANGED <<env, now, req, helper>>

LegacyNext ==
  \E r \in Reqs :
    \/ Middleware(r, TRUE)
    \/ Handler(r, ScanUploads)
    \/ List(r)
    \/ HeadObject(r)
    \/ ObjectRemoved(r)
    \/ Put(r)

LegacySpec == LegacyInit /\ [][LegacyNext]_vars

(***************************************************************************)
(* Retrieval with and without a credential, from a bucket that earlier     *)
(* uploads have filled and that uploads go on filling                      *)
(***************************************************************************)
ReadStore ==
  { StoredUpload("images", "my pic.png", Repeat("A", NanoIdLen), "hello", "image/png"),
    StoredUpload("files", "a/b c.txt", Repeat("z", NanoIdLen), "world", "text/plain") }

\* The paths of the objects stored by the earlier uploads.
StoredPaths == {"/" \o e[1] : e \in ReadStore}

ReadInit ==
  /\ env \in {Env(Some(Secret), Some("i.io"), Some("f.io")),
              Env(None, Some("i.io"), Some("f.io"))}
  /\ bucket \in {BucketOf(S) : S \in SUBSET ReadStore}
  /\ now = 0
  /\ req = [r \in Reqs |-> IdleReq]
  /\ helper = NoCall

ReadNext ==
  \E r \in Reqs :
    \/ Middleware(r, TRUE)
    \/ Handler(r, ScanUploads)
    \/ List(r)
    \/ HeadObject(r)
    \/ Put(r)
    \/ RetrieveWith(r, TRUE, StoredPaths \cup ReturnedPaths \cup ProbePaths, AuthHeaders)

ReadSpec == ReadInit /\ [][ReadNext]_vars

(***************************************************************************)
(* The filename helpers on their own: sanitizeFilename and                 *)
(* generateUniqueFilename applied to one filename, for an upload of one    *)
(* MIME type                                                               *)
(***************************************************************************)
\* Characters filenames are built from: a letter, the dot, the path
\* separator, two kinds of whitespace and a character the sanitizer removes.
NameChars == {"a", ".", "/", " ", "\t", "?"}

\* The strings of at most n characters of NameChars.
RECURSIVE Strings(_)
Strings(n) ==
  IF n = 0 THEN {""}
  ELSE LET shorter == Strings(n - 1)
       IN shorter \cup {s \o c : s \in shorter, c \in NameChars}

\* Filenames: the short ones, and ones around the length limit, bare or
\* behind a path and a blank.
Names ==
  Strings(MaxNameChars)
  \cup {s \o Repeat("a", MaxNameLen - 1) \o t : s \in {"", "/ "}, t \in Strings(2)}

\* MIME types of the upload the filename belongs to.
MimeTypes == {"image/png", "text/plain", "application/x-unknown"}

\* MIME strings that are empty, differ from a known prefix in case only, stop
\* short of the slash, or carry the prefix further in.
OddMimeTypes ==
  {"", "Image/PNG", "IMAGE/png", "Video/mp4", "image", "video", "image/", "video/mp4",
   "ximage/png", "videos/mp4"}

\* What the helpers are called with: every filename under each usual type,
\* and one filename under each odd type.
HelperInputs == (Names \X MimeTypes) \cup ({"my pic.png"} \X OddMimeTypes)

FnInit ==
  /\ env = Env(Some(Secret), None, None)
  /\ bucket = <<>>
  /\ now = 0
  /\ req = [r \in Reqs |-> IdleReq]
  /\ helper \in {[NoCall EXCEPT !.name = i[1], !.mimeType = i[2]] : i \in HelperInputs}

CallSanitize ==
  /\ helper.sanitized = None
  /\ helper' = [helper EXCEPT !.sanitized = Some(sanitizeFilename(helper.name))]
  /\ UNCHANGED <<env, bucket, now, req>>

\* generateUniqueFilename(originalFilename): the MIME type is not passed.
CallGenerate ==
  /\ helper.uniqueFilename = None
  /\ \E id \in NanoIds :
       helper' = [helper EXCEPT !.uniqueFilename = Some(generateUniqueFilename(helper.name, id))]
  /\ UNCHANGED <<env, bucket, now, req>>

\* The prefix selection of the upload handler on the MIME type alone.
CallClassify ==
  /\ helper.prefix = None
  /\ helper' = [helper EXCEPT !.prefix = Some(Classify(helper.mimeType))]
  /\ UNCHANGED <<env, bucket, now, req>>

FnNext == CallSanitize \/ CallGenerate \/ CallClassify

FnSpec == FnInit /\ [][FnNext]_vars

(***************************************************************************)
(* Properties                                                              *)
(***************************************************************************)
IsPut(r) == req[r].method = "PUT"
IsGet(r) == req[r].method = "GET"
Answered(r) == req[r].pc = "done"
Status(r) == Get(req[r].res).status
Body(r) == Get(req[r].res).body
\* A successful upload.
Uploaded(r) == IsPut(r) /\ Answered(r) /\ Status(r) = 200
\* No request has arrived after r.
Latest(r) == r = MaxReqs \/ req[r + 1].pc = "idle"

\* C3 as stated: a PUT /upload is answered 401 exactly when the X-Auth-Key
\* header is absent or differs from the configured secret.
C3_AuthGateAsStated ==
  \A r \in Reqs :
    IsPut(r) =>
      ((Answered(r) /\ Status(r) = 401)
         <=> (req[r].authKey = None \/ req[r].authKey # env.AUTH_KEY))

\* C3 (amended): a PUT /upload is answered 401 with body 'Unauthorized', before
\* the upload handler has run, whenever the X-Auth-Key header is absent, empty
\* or different from the configured secret; it is never answered 401 when the
\* header is a non-empty string equal to the configured secret.
C3_AuthGate ==
  \A r \in Reqs :
    IsPut(r) =>
      LET key == req[r].authKey
          matches == key # None /\ key # Some("") /\ key = env.AUTH_KEY
      IN /\ ~matches =>
              /\ Answered(r)
              /\ Get(req[r].res) = Text(401, "Unauthorized")
              /\ req[r].data = None /\ req[r].stages = <<>> /\ req[r].calls = <<>>
         /\ matches => ~(Answered(r) /\ Status(r) = 401)

\* C3 witness: a wrong key was refused and the right key let an upload through.
C3_Witness ==
  \E r1, r2 \in Reqs :
    /\ IsPut(r1) /\ req[r1].authKey = Some("wrong-key") /\ Answered(r1) /\ Status(r1) = 401
    /\ IsPut(r2) /\ req[r2].authKey = Some(Secret) /\ Uploaded(r2)

\* The objects of a partition that carry a given originalHash.
KeysWithHash(b, prefix, hash) ==
  {k \in DOMAIN b : /\ StartsWith(k, prefix \o "/")
                    /\ IsSome(b[k].customMetadata)
                    /\ Get(b[k].customMetadata).originalHash = hash}

PayloadOf(r) == Get(Get(req[r].data).file).body
TypeOf(r) == Get(Get(req[r].data).file).type
PreferenceOf(r) == Get(req[r].data).url_preference

\* Two successful uploads, r2 right after r1, of the same bytes into the same
\* partition.
SameContentTwice(r1, r2) ==
  /\ r2 = r1 + 1 /\ Uploaded(r1) /\ Uploaded(r2)
  /\ PayloadOf(r1) = PayloadOf(r2)
  /\ req[r1].prefix = req[r2].prefix

GetOfReturnedUrl(u, g) ==
  /\ g = u + 1 /\ Uploaded(u) /\ IsGet(g) /\ Answered(g)
  /\ req[g].path = UrlPathname(Body(u))

C4_HashUnique ==
  \A k1, k2 \in DOMAIN bucket :
    LET slash1 == IndexOfFrom(k1, "/", 1)
        slash2 == IndexOfFrom(k2, "/", 1)
    IN /\ k1 # k2
       /\ SubSeq(k1, 1, slash1) = SubSeq(k2, 1, slash2)
       => Get(bucket[k1].customMetadata).originalHash
            # Get(bucket[k2].customMetadata).originalHash

\* C4 witness: two uploads, one after the other, have left two objects in the
\* images partition.
C4_Witness ==
  \E k1, k2 \in DOMAIN bucket :
    /\ k1 # k2 /\ StartsWith(k1, "images/") /\ StartsWith(k2, "images/")
    /\ \A r \in Reqs : Uploaded(r) /\ IsSome(req[r].r2Key)

\* The step in which request r writes its object and answers 200.
PutStep(r) ==
  /\ req[r].pc = "put" /\ req'[r].pc = "done"
  /\ Get(req'[r].res).status = 200

HashAt(b, k) == Get(b[k].customMetadata).originalHash

\* C5: the put of an upload is unconditional. Whatever the partition already
\* holds, an object with the same originalHash included, and whatever other
\* requests are in flight, a successful put leaves the request's object at its
\* generated key and every object at another key as it was; so two overlapping
\* uploads of the same bytes that both finished the scan before either wrote
\* both persist.
C5_AcceptedRace ==
  [][\A r \in Reqs :
       PutStep(r) =>
         LET key == Get(req'[r].r2Key)
         IN /\ key \in DOMAIN bucket'
            /\ HashAt(bucket', key) = Get(req[r].fileHash)
            /\ bucket'[key].body = PayloadOf(r)
            /\ \A k \in DOMAIN bucket \ {key} :
                 k \in DOMAIN bucket' /\ bucket'[k] = bucket[k]]_vars

\* C5 witness: two uploads of the same bytes each made one list call that
\* found the partition empty and then one put; the partition now holds two
\* objects with the same originalHash under different keys.
C5_Witness ==
  \E r1, r2 \in Reqs :
    /\ r1 # r2 /\ Uploaded(r1) /\ Uploaded(r2)
    /\ PayloadOf(r1) = PayloadOf(r2) /\ req[r1].prefix = req[r2].prefix
    /\ req[r1].calls = <<"list", "put">> /\ req[r2].calls = <<"list", "put">>
    /\ req[r1].snap = <<>> /\ req[r2].snap = <<>>
    /\ IsSome(req[r1].r2Key) /\ IsSome(req[r2].r2Key)
    /\ req[r1].r2Key # req[r2].r2Key
    /\ {Get(req[r1].r2Key), Get(req[r2].r2Key)} \subseteq DOMAIN bucket
    /\ HashAt(bucket, Get(req[r1].r2Key)) = HashAt(bucket, Get(req[r2].r2Key))
    /\ Cardinality(KeysWithHash(bucket, req[r1].prefix, Get(req[r1].fileHash))) = 2

\* C6 as stated: no step changes or removes an object that has been written.
C6_WriteOnce ==
  [][\A k \in DOMAIN bucket : k \in DOMAIN bucket' /\ bucket'[k] = bucket[k]]_vars

\* C6 (what the code keeps): no key is ever removed, and the object at a key
\* changes only in the put of an upload whose generated key is that key.
C6_KeysKept ==
  [][\A k \in DOMAIN bucket :
       /\ k \in DOMAIN bucket'
       /\ bucket'[k] # bucket[k] =>
            \E r \in Reqs : PutStep(r) /\ req'[r].r2Key = Some(k)]_vars

\* C6 witness: two uploads of different bytes generated the same key, and the
\* key holds the bytes of only one of them.
C6_Witness ==
  \E r1, r2 \in Reqs :
    /\ r1 # r2 /\ Uploaded(r1) /\ Uploaded(r2)
    /\ IsSome(req[r1].r2Key) /\ req[r1].r2Key = req[r2].r2Key
    /\ PayloadOf(r1) # PayloadOf(r2)
    /\ bucket[Get(req[r1].r2Key)].body # PayloadOf(r1)

\* An upload answered from the duplicate branch.
DedupHit(r) == Uploaded(r) /\ IsSome(req[r].duplicate)

\* C7: an upload whose duplicate scan returned an existing key made no put
\* and generated no key, and the bucket it leaves (keys, payloads, content
\* types and metadata, the first upload's originalFilename included) is the
\* bucket it found on arrival.
C7_DedupHitFrame ==
  \A r \in Reqs :
    DedupHit(r) =>
      /\ \A i \in 1..Len(req[r].calls) : req[r].calls[i] # "put"
      /\ req[r].r2Key = None
      /\ Get(req[r].duplicate) \in DOMAIN req[r].snap
      /\ Latest(r) => bucket = req[r].snap

\* C7 witness: the latest upload was a duplicate sent under another filename
\* than the one stored with the object, which still carries the first name.
C7_Witness ==
  \E r \in Reqs :
    /\ DedupHit(r) /\ Latest(r)
    /\ LET stored == Get(bucket[Get(req[r].duplicate)].customMetadata)
       IN /\ stored.originalFilename # req[r].originalFilename
          /\ stored.originalHash = Get(req[r].fileHash)
    /\ bucket = req[r].snap /\ bucket # <<>>

\* The partition the claim assigns to a content type.
PartitionOf(contentType) ==
  IF SubSeq(contentType, 1, Min(6, Len(contentType))) = "image/" THEN "images"
  ELSE IF SubSeq(contentType, 1, Min(6, Len(contentType))) = "video/" THEN "videos"
  ELSE "files"

\* C8: the key written by an upload starts with images/ when the declared
\* type starts with 'image/', with videos/ when it starts with 'video/', and
\* with files/ otherwise; and the first segment of every stored key is the
\* partition of the content type stored with the object.
C8_PartitionRouting ==
  /\ \A r \in Reqs :
       Uploaded(r) /\ IsSome(req[r].r2Key) =>
         StartsWith(Get(req[r].r2Key), PartitionOf(TypeOf(r)) \o "/")
  /\ \A k \in DOMAIN bucket :
       /\ StartsWith(k, PartitionOf(bucket[k].httpMetadata.contentType) \o "/")
       /\ PartitionOf(bucket[k].httpMetadata.contentType)
            = PartitionOf(Get(bucket[k].customMetadata).mimeType)

\* C8 witness: a video and a plain-text file have been stored, each in its
\* own partition.
C8_Witness ==
  \E k1, k2 \in DOMAIN bucket :
    /\ StartsWith(k1, "videos/") /\ bucket[k1].httpMetadata.contentType = "video/mp4"
    /\ StartsWith(k2, "files/") /\ bucket[k2].httpMetadata.contentType = "text/plain"

\* The filename chosen for a request before sanitization: the filename field
\* when it is a non-empty string, else the file's own name, else 'untitled'.
ChosenFilename(r) ==
  LET data == Get(req[r].data)
  IN IF IsSome(data.filename) /\ Get(data.filename) # "" THEN Get(data.filename)
     ELSE IF Get(data.file).name # "" THEN Get(data.file).name
     ELSE "untitled"

\* C9: the object a put writes has the uploaded bytes as payload, the declared
\* type as content type, and exactly four metadata fields: originalHash, the
\* hash of the stored payload; originalFilename, the filename chosen for the
\* request before sanitization; mimeType, the stored content type; and
\* uploadTimestamp, the clock value at the write, as a decimal string.
C9_PersistedMetadata ==
  [][\A r \in Reqs :
       PutStep(r) =>
         LET obj == bucket'[Get(req'[r].r2Key)]
             meta == Get(obj.customMetadata)
         IN /\ obj.body = PayloadOf(r)
            /\ obj.httpMetadata.contentType = TypeOf(r)
            /\ IsSome(obj.customMetadata)
            /\ DOMAIN meta = {"originalHash", "originalFilename",
                              "uploadTimestamp", "mimeType"}
            /\ meta.originalHash = sha256(obj.body)
            /\ meta.originalFilename = ChosenFilename(r)
            /\ meta.mimeType = obj.httpMetadata.contentType
            /\ meta.uploadTimestamp = NumberToString(now)]_vars

\* C9 witness: an object stored under a sanitized key carries the filename
\* field of its request, slash and space included, and a write time.
C9_Witness ==
  \E r \in Reqs :
    /\ Uploaded(r) /\ IsSome(req[r].r2Key) /\ Latest(r)
    /\ LET meta == Get(bucket[Get(req[r].r2Key)].customMetadata)
       IN /\ meta.originalFilename = "a/b c.txt"
          /\ meta.originalFilename # sanitizeFilename(meta.originalFilename)
          /\ meta.originalHash = sha256(PayloadOf(r))
          /\ meta.uploadTimestamp \in {"1", "2"}

\* The URL forms of the claim, for the key an upload answered with.
AnsweredKey(r) == IF IsSome(req[r].r2Key) THEN Get(req[r].r2Key) ELSE Get(req[r].duplicate)
HostFor(partition) ==
  IF partition = "images"
  THEN (IF env.IMAGE_HOSTNAME \in {None, Some("")} THEN "images.localhost"
        ELSE Get(env.IMAGE_HOSTNAME))
  ELSE (IF env.FILES_HOSTNAME \in {None, Some("")} THEN "files.localhost"
        ELSE Get(env.FILES_HOSTNAME))
DirectUrlOn(r, host) == UrlProtocol(req[r].url) \o "//" \o host \o "/" \o AnsweredKey(r)

\* C10: a successful upload answers with the transformed URL
\* '<protocol>//<image-host>/cdn-cgi/image/fit=contain,width=1200,format=auto/
\* <direct URL on the image host>' exactly when the partition is images and
\* url_preference is 'Preview-Optimized URL'; in every other case it answers
\* with the direct URL '<protocol>//<host>/<partition>/<key>'.
C10_UrlForm ==
  \A r \in Reqs :
    Uploaded(r) =>
      LET direct == DirectUrlOn(r, HostFor(req[r].prefix))
          transformed ==
            UrlProtocol(req[r].url) \o "//" \o HostFor("images")
              \o "/cdn-cgi/image/fit=contain,width=1200,format=auto/"
              \o DirectUrlOn(r, HostFor("images"))
      IN /\ StartsWith(AnsweredKey(r), req[r].prefix \o "/")
         /\ direct # transformed
         /\ Body(r) = IF /\ req[r].prefix = "images"
                         /\ PreferenceOf(r) = Some("Preview-Optimized URL")
                      THEN transformed
                      ELSE direct

\* C10 witness: an image upload asking for the optimized form got the
\* transformed URL, and a non-image upload asking for it got the direct one.
C10_Witness ==
  \E r1, r2 \in Reqs :
    /\ Uploaded(r1) /\ req[r1].prefix = "images"
    /\ PreferenceOf(r1) = Some("Preview-Optimized URL")
    /\ StartsWith(Body(r1), UrlProtocol(req[r1].url) \o "//" \o HostFor("images")
                              \o "/cdn-cgi/image/")
    /\ Uploaded(r2) /\ req[r2].prefix # "images"
    /\ PreferenceOf(r2) = Some("Preview-Optimized URL")
    /\ Body(r2) = DirectUrlOn(r2, HostFor(req[r2].prefix))

\* Two successful uploads whose requests differ only in the host they were
\* sent to.
DifferOnlyInHost(r1, r2) ==
  /\ r1 # r2 /\ Uploaded(r1) /\ Uploaded(r2)
  /\ req[r1].data = req[r2].data
  /\ UrlProtocol(req[r1].url) = UrlProtocol(req[r2].url)
  /\ UrlPathname(req[r1].url) = UrlPathname(req[r2].url)
  /\ UrlHost(req[r1].url) # UrlHost(req[r2].url)

\* C11: the host of every returned URL is the configured image host when the
\* declared type starts with 'image/' and the configured file host otherwise
\* (the defaults images.localhost and files.localhost when none is
\* configured), whatever host the request was sent to; two uploads that differ
\* only in the host they were sent to return URLs with the same host.
C11_HostSelection ==
  /\ \A r \in Reqs :
       Uploaded(r) =>
         UrlHost(Body(r)) = HostFor(IF StartsWith(TypeOf(r), "image/")
                                    THEN "images" ELSE "files")
  /\ \A r1, r2 \in Reqs :
       DifferOnlyInHost(r1, r2) => UrlHost(Body(r1)) = UrlHost(Body(r2))

\* C11 witness: the same video was sent to two hosts, and both answers name
\* the file host, which is neither of them.
C11_Witness ==
  \E r1, r2 \in Reqs :
    /\ DifferOnlyInHost(r1, r2)
    /\ TypeOf(r1) = "video/mp4"
    /\ UrlHost(Body(r1)) = UrlHost(Body(r2))
    /\ UrlHost(Body(r1)) = HostFor("files")
    /\ UrlHost(Body(r1)) \notin {UrlHost(req[r1].url), UrlHost(req[r2].url)}

\* A GET whose first path segment is not a partition, and a GET for a key of
\* a partition that the bucket did not hold.
UnknownPartition(g) ==
  IsGet(g) /\ Answered(g) /\ Segments(req[g].path)[1] \notin {"images", "videos", "files"}
AbsentKey(g) ==
  /\ IsGet(g) /\ Answered(g)
  /\ LET segs == Segments(req[g].path)
     IN /\ Len(segs) = 2 /\ segs[1] \in {"images", "videos", "files"}
        /\ (segs[1] \o "/" \o segs[2]) \notin DOMAIN req[g].snap

\* C12: a GET for an unknown partition and a GET for an absent key of a known
\* partition are both answered 404, with the same status, body and headers.
C12_RetrievalMiss ==
  /\ \A g \in Reqs :
       UnknownPartition(g) \/ AbsentKey(g) =>
         Status(g) = 404 /\ Get(req[g].res) = Text(404, "404 Not Found")
  /\ \A g1, g2 \in Reqs :
       UnknownPartition(g1) /\ AbsentKey(g2) => req[g1].res = req[g2].res

\* C12 witness: both kinds of miss have been answered, with one and the same
\* response.
C12_Witness ==
  \E g1, g2 \in Reqs :
    /\ UnknownPartition(g1) /\ req[g1].path = "/documents/some-key.doc"
    /\ AbsentKey(g2) /\ req[g2].path = "/images/none.png"
    /\ Status(g1) = 404 /\ req[g1].res = req[g2].res

\* An authorized PUT /upload whose form data had no 'file' field.
WithoutFile(r) ==
  IsPut(r) /\ IsSome(req[r].data) /\ Get(req[r].data).file = None

\* C13: an authorized PUT /upload whose form data has no 'file' field is
\* answered 400 with body 'Missing "file" in form data' as soon as the form
\* is read; it never enters the Hashed state and has no hash.
C13_MissingFile ==
  \A r \in Reqs :
    WithoutFile(r) =>
      /\ req[r].authKey = env.AUTH_KEY
      /\ Answered(r)
      /\ Get(req[r].res) = Text(400, "Missing \"file\" in form data")
      /\ \A i \in 1..Len(req[r].stages) : req[r].stages[i] # "Hashed"
      /\ req[r].fileHash = None

\* C13 witness: a request with the right key and a filename but no file was
\* answered 400.
C13_Witness ==
  \E r \in Reqs :
    /\ WithoutFile(r) /\ req[r].authKey = Some(Secret)
    /\ IsSome(Get(req[r].data).filename)
    /\ Answered(r) /\ Status(r) = 400

\* The step in which request r is answered 401 or 400.
RejectStep(r) ==
  /\ req[r].pc # "done" /\ req'[r].pc = "done"
  /\ Get(req'[r].res).status \in {400, 401}

\* C14: a request that ends in 401 or 400 has made no list, head, get or put
\* call on the bucket, and the step that answers it leaves the bucket as it
\* was, whatever other requests are doing.
C14_RejectionFrame ==
  [][\A r \in Reqs :
       RejectStep(r) => /\ req'[r].calls = <<>>
                        /\ req[r].calls = <<>>
                        /\ bucket' = bucket]_vars

\* C14 witness: after an upload had stored an object, a request was refused
\* (for its key, or for its missing file) without a call, and the bucket is
\* the one it found.
C14_Witness ==
  \E r1, r2 \in Reqs :
    /\ Uploaded(r1) /\ IsSome(req[r1].r2Key)
    /\ Answered(r2) /\ Status(r2) \in {400, 401} /\ req[r2].calls = <<>>
    /\ req[r2].snap # <<>> /\ bucket = req[r2].snap

\* An upload whose bucket.put threw, and one whose hash could not be computed.
PutFailed(r) == IsPut(r) /\ Answered(r) /\ IsSome(req[r].thrown)
HashFailed(r) ==
  IsPut(r) /\ Answered(r) /\ req[r].stages = <<"Received">> /\ Status(r) # 200

\* The step in which the put of request r fails.
PutFailStep(r) ==
  req[r].pc = "put" /\ req'[r].pc = "done" /\ IsSome(req'[r].thrown)

Contains(s, m) ==
  \E i \in 1..(Len(s) - Len(m) + 1) : SubSeq(s, i, i + Len(m) - 1) = m

\* C15: when the put of an upload fails, the upload is answered 500 with body
\* 'Failed to upload to R2: <message>' when an Error was thrown and with the
\* unknown-error text otherwise; the answer carries no URL, the request has
\* no key, and the bucket is left as it was.
C15_WriteFailure ==
  [][\A r \in Reqs :
       PutFailStep(r) =>
         LET e == Get(req'[r].thrown)
             res == Get(req'[r].res)
         IN /\ res.status = 500
            /\ IsSome(e) => res.body = "Failed to upload to R2: " \o Get(e)
            /\ ~IsSome(e) => res.body = "Failed to upload to R2 due to an unknown error"
            /\ ~Contains(res.body, "//")
            /\ req'[r].r2Key = None
            /\ bucket' = bucket]_vars

\* C15 witness: after one upload stored its object, the put of another
\* failed; the bucket holds the first object only.
C15_Witness ==
  \E r1, r2 \in Reqs :
    /\ Uploaded(r1) /\ IsSome(req[r1].r2Key)
    /\ PutFailed(r2) /\ Status(r2) = 500
    /\ Body(r2) = "Failed to upload to R2: R2 unavailable"
    /\ DOMAIN bucket = {Get(req[r1].r2Key)}

\* The messages of the errors the bucket can throw.
BackendMessages == {Get(e) : e \in {x \in PutErrors : IsSome(x)}}

\* C16 as stated: the answer to a hash failure and the answer to a put that
\* failed with an Error both contain a backend error message.
C16_ErrorDetailAsStated ==
  \A r \in Reqs :
    HashFailed(r) \/ (PutFailed(r) /\ IsSome(Get(req[r].thrown))) =>
      \E m \in BackendMessages : Contains(Body(r), m)

\* C16 (amended): a put that failed with an Error is answered with that
\* Error's message after 'Failed to upload to R2: '; a put that failed with
\* another thrown value is answered with the unknown-error text; a hash
\* failure is answered with the fixed text 'Failed to calculate file hash',
\* which carries no backend message.
C16_ErrorDetail ==
  \A r \in Reqs :
    /\ PutFailed(r) =>
         LET e == Get(req[r].thrown)
         IN /\ Status(r) = 500
            /\ IsSome(e) => /\ Contains(Body(r), Get(e))
                            /\ Body(r) = "Failed to upload to R2: " \o Get(e)
            /\ ~IsSome(e) => Body(r) = "Failed to upload to R2 due to an unknown error"
    /\ HashFailed(r) =>
         /\ Get(req[r].res) = Text(500, "Failed to calculate file hash")
         /\ \A m \in BackendMessages : ~Contains(Body(r), m)

\* C16 witness: one upload failed at the hash and another at the put, with an
\* Error whose message is in the answer.
C16_Witness ==
  \E r1, r2 \in Reqs :
    /\ HashFailed(r1) /\ Body(r1) = "Failed to calculate file hash"
    /\ PutFailed(r2) /\ req[r2].thrown = Some(Some("R2 unavailable"))
    /\ Contains(Body(r2), "R2 unavailable")

\* An authorized PUT /upload whose form data had a 'file' field.
WithFile(r) ==
  IsPut(r) /\ IsSome(req[r].data) /\ IsSome(Get(req[r].data).file)

FinalSegment(name) ==
  LET slashes == {i \in 1..Len(name) : SubSeq(name, i, i) = "/"}
      start == IF slashes = {} THEN 1
               ELSE 1 + CHOOSE i \in slashes : \A j \in slashes : j <= i
  IN SubSeq(name, start, Len(name))

\* [A-Za-z0-9_.-]
AllowedChars == {Ascii[i] : i \in 1..Len(Ascii)} \ {"/", ":", "="}

\* What the character at position i of a segment leaves in the sanitized
\* name: '_' for the first character of a run of whitespace, nothing for the
\* rest of the run and for a character that is not allowed, itself otherwise.
Emit(segment, i) ==
  LET c == SubSeq(segment, i, i)
      blank == {" ", "\t", "\n"}
  IN IF c \in blank
     THEN (IF i > 1 /\ SubSeq(segment, i - 1, i - 1) \in blank THEN "" ELSE "_")
     ELSE IF c \in AllowedChars THEN c ELSE ""

Kept(segment) == {i \in 1..Len(segment) : Emit(segment, i) # ""}

\* C18: sanitizeFilename returns, in order, what the characters of the final
\* path segment leave (one underscore per run of whitespace, nothing for a
\* character outside [A-Za-z0-9_.-]), cut to the first 100 characters; the
\* result has no path separator and no character outside that set.
C18_Sanitization ==
  IsSome(helper.sanitized) =>
    LET out == Get(helper.sanitized)
        segment == FinalSegment(helper.name)
        kept == Kept(segment)
    IN /\ Len(out) = IF Cardinality(kept) < 100 THEN Cardinality(kept) ELSE 100
       /\ Len(out) <= 100
       /\ \A i \in kept :
            LET rank == Cardinality({j \in kept : j <= i})
            IN rank <= 100 => SubSeq(out, rank, rank) = Emit(segment, i)
       /\ \A k \in 1..Len(out) :
            SubSeq(out, k, k) \in AllowedChars /\ SubSeq(out, k, k) # "/"

\* C18 witness: a name of 105 characters with a path, a blank, a question
\* mark and a dot was sanitized to '_' and 99 letters: the path is gone, the
\* blank is an underscore, the question mark is removed and the dot is cut.
C18_Witness ==
  /\ helper.name = "/ " \o Repeat("a", 99) \o "?."
  /\ helper.sanitized = Some("_" \o Repeat("a", 99))

\* The position of the dot of a trailing '.ext' suffix of a sanitized name
\* (a last dot with at least one character after it), 0 when there is none.
ExtDot(sanitized) ==
  LET dots == {i \in 1..Len(sanitized) : SubSeq(sanitized, i, i) = "."}
      last == IF dots = {} THEN 0 ELSE CHOOSE i \in dots : \A j \in dots : j <= i
  IN IF last > 0 /\ last < Len(sanitized) THEN last ELSE 0

\* A generated name that ends with the random id has no extension segment.
NoExtension(u) == \E id \in NanoIds : EndsWith(u, "_" \o id)

\* C19 as stated: when the sanitized filename has no trailing '.ext', the
\* extension of the upload's MIME type in the type-to-extension lookup is
\* appended to the key; the key has no extension only when neither the
\* filename nor the MIME type yields one.
C19_ExtensionInference ==
  IsSome(helper.uniqueFilename) =>
    LET u == Get(helper.uniqueFilename)
        named == ExtDot(sanitizeFilename(helper.name)) > 0
        mimeExt == getExtension(helper.mimeType)
    IN /\ ~named /\ IsSome(mimeExt) => EndsWith(u, "." \o Get(mimeExt))
       /\ NoExtension(u) => ~named /\ ~IsSome(mimeExt)

\* C19 (what the code does): the extension of the key is the trailing '.ext'
\* of the sanitized filename, and nothing when the filename has none,
\* whatever the MIME type of the upload.
C19_ExtensionFromNameOnly ==
  IsSome(helper.uniqueFilename) =>
    LET u == Get(helper.uniqueFilename)
        sanitized == sanitizeFilename(helper.name)
        dot == ExtDot(sanitized)
    IN \E id \in NanoIds :
         IF dot > 0
         THEN u = SubSeq(sanitized, 1, dot - 1) \o "_" \o id
                    \o SubSeq(sanitized, dot, Len(sanitized))
         ELSE /\ NoExtension(u)
              /\ u = (IF EndsWith(sanitized, ".")
                      THEN SubSeq(sanitized, 1, Len(sanitized) - 1)
                      ELSE sanitized) \o "_" \o id

\* C19 witness: the name 'a' of a PNG upload got a key without '.png'.
C19_Witness ==
  /\ helper.name = "a" /\ helper.mimeType = "image/png"
  /\ getExtension(helper.mimeType) = Some("png")
  /\ IsSome(helper.uniqueFilename)
  /\ NoExtension(Get(helper.uniqueFilename))

PersistedPath == <<"Received", "Hashed", "DuplicateChecked", "Persisted", "Responded">>
DeduplicatedPath == <<"Received", "Hashed", "DuplicateChecked", "Deduplicated", "Responded">>
IsPrefix(s, t) == Len(s) <= Len(t) /\ s = SubSeq(t, 1, Len(s))
Occurrences(s, x) == Cardinality({i \in 1..Len(s) : s[i] = x})
\* The scan of request r has returned 'not found' and nothing came after it.
ScanReturnedNotFound(r) ==
  /\ req[r].stages = <<"Received", "Hashed", "DuplicateChecked">>
  /\ req[r].duplicate = None /\ req[r].page = <<>> /\ req[r].cursor = None
  /\ req[r].calls # <<>>
  /\ \A i \in 1..Len(req[r].calls) : req[r].calls[i] \in {"list", "head"}

\* C21: the stages of every upload are, in order, a prefix of Received,
\* Hashed, DuplicateChecked, then one of Persisted or Deduplicated, then
\* Responded, and a successful upload has gone through all of one of the two
\* paths. A request makes at most one put, as its last call, and only after
\* its own scan (list and head calls only) returned 'not found'; the handler
\* is about to put only in that situation; and the URL of a new key is
\* answered only by a request whose put is its completed last call.
C21_PipelineOrder ==
  \A r \in Reqs :
    IsPut(r) =>
      LET stages == req[r].stages
          calls == req[r].calls
      IN /\ IsPrefix(stages, PersistedPath) \/ IsPrefix(stages, DeduplicatedPath)
         /\ Uploaded(r) <=> stages \in {PersistedPath, DeduplicatedPath}
         /\ Occurrences(calls, "put") <= 1
         /\ req[r].pc = "put" => ScanReturnedNotFound(r) /\ Occurrences(calls, "put") = 0
         /\ Occurrences(calls, "put") = 1 =>
              /\ Answered(r)
              /\ calls[Len(calls)] = "put" /\ Len(calls) >= 2
              /\ \A i \in 1..(Len(calls) - 1) : calls[i] \in {"list", "head"}
              /\ IsPrefix(<<"Received", "Hashed", "DuplicateChecked">>, stages)
              /\ "Deduplicated" \notin {stages[i] : i \in 1..Len(stages)}
              /\ req[r].duplicate = None
         /\ Uploaded(r) /\ stages = PersistedPath =>
              /\ Occurrences(calls, "put") = 1
              /\ IsSome(req[r].r2Key) /\ Get(req[r].r2Key) \in DOMAIN bucket
         /\ Uploaded(r) /\ stages = DeduplicatedPath =>
              /\ Occurrences(calls, "put") = 0
              /\ IsSome(req[r].duplicate) /\ req[r].r2Key = None

\* Two overlapping uploads of the same bytes have both been through the scan
\* and the put; the second one's scan had returned before the first one's put.
C21_Witness ==
  \E r1, r2 \in Reqs :
    /\ r1 # r2
    /\ Uploaded(r1) /\ Uploaded(r2)
    /\ req[r1].stages = PersistedPath /\ req[r2].stages = PersistedPath
    /\ req[r1].fileHash = req[r2].fileHash
    /\ req[r2].calls = <<"list", "put">>

\* The keys of bucket b under the prefix that findDuplicateFile lists.
KeysUnder(b, prefix) == {k \in DOMAIN b : StartsWith(k, prefix)}
\* The scan of request r returned 'not found'.
ScanMissed(r) ==
  IsPut(r) /\ (req[r].pc = "put" \/ (Uploaded(r) /\ IsSome(req[r].r2Key)))

\* C22: with requests one at a time over a bucket that already holds objects,
\* and pages of any size, the scan returns 'not found' only when no object of
\* the partition has the upload's hash, and then it has looked at every key of
\* the partition: one head per key, the listing followed until it reported no
\* cursor. A successful upload is a duplicate hit exactly when some object of
\* the partition has the hash, on whatever page that object is listed, and
\* the key it answers with is one of those objects.
C22_ScanCompleteness ==
  \A r \in Reqs :
    /\ ScanMissed(r) =>
         /\ KeysWithHash(req[r].snap, req[r].prefix, Get(req[r].fileHash)) = {}
         /\ Occurrences(req[r].calls, "head")
              = Cardinality(KeysUnder(req[r].snap, req[r].prefix))
         /\ Occurrences(req[r].calls, "list") >= 1
    /\ Uploaded(r) =>
         /\ DedupHit(r)
              <=> KeysWithHash(req[r].snap, req[r].prefix, Get(req[r].fileHash)) # {}
         /\ DedupHit(r) =>
              Get(req[r].duplicate)
                \in KeysWithHash(req[r].snap, req[r].prefix, Get(req[r].fileHash))

\* An upload found its duplicate on the second page of the listing, after a
\* first page that held another object.
C22_Witness ==
  \E r \in Reqs :
    /\ DedupHit(r)
    /\ req[r].calls = <<"list", "head", "list", "head">>
    /\ Cardinality(KeysUnder(req[r].snap, req[r].prefix)) >= 2

\* The least key of a non-empty set in listing order.
FirstKey(S) == CHOOSE k \in S : \A j \in S \ {k} : StrLess(k, j)
\* The number of keys of S listed up to k.
Position(S, k) == Cardinality({j \in S : j = k \/ StrLess(j, k)})

\* C23: with requests one at a time, a duplicate hit returns the first object
\* in listing order among those of the partition that have the hash, and the
\* scan stops there: it has made one head per key listed up to that object and
\* none after it. Two such uploads of the same content into the same
\* partition are answered with the same key as long as the objects having the
\* hash are the same at both arrivals, and with the same URL when they also
\* agree in preference.
C23_TieBreak ==
  /\ \A r \in Reqs :
       DedupHit(r) =>
         LET matches == KeysWithHash(req[r].snap, req[r].prefix, Get(req[r].fileHash))
             key == Get(req[r].duplicate)
         IN /\ key = FirstKey(matches)
            /\ Occurrences(req[r].calls, "head")
                 = Position(KeysUnder(req[r].snap, req[r].prefix), key)
            /\ req[r].calls[Len(req[r].calls)] = "head"
  /\ \A r1, r2 \in Reqs :
       /\ r1 < r2 /\ DedupHit(r1) /\ DedupHit(r2)
       /\ req[r1].fileHash = req[r2].fileHash /\ req[r1].prefix = req[r2].prefix
       /\ KeysWithHash(req[r1].snap, req[r1].prefix, Get(req[r1].fileHash))
            = KeysWithHash(req[r2].snap, req[r2].prefix, Get(req[r2].fileHash))
       => /\ req[r1].duplicate = req[r2].duplicate
          /\ (PreferenceOf(r1) = PreferenceOf(r2) /\ req[r1].protocol = req[r2].protocol)
               => Body(r1) = Body(r2)

\* Two objects of the partition have the hash, a third one does not, and two
\* uploads of that content, one after the other, were both answered with the
\* first of the two.
C23_Witness ==
  \E r1, r2 \in Reqs :
    /\ r1 < r2 /\ DedupHit(r1) /\ DedupHit(r2)
    /\ Cardinality(KeysWithHash(req[r1].snap, req[r1].prefix, Get(req[r1].fileHash))) = 2
    /\ Cardinality(KeysUnder(req[r1].snap, req[r1].prefix)) = 3
    /\ req[r1].duplicate = req[r2].duplicate
    /\ Body(r1) = Body(r2)
    /\ bucket = req[r1].snap

\* The terminal outcome that a response stands for.
Outcome(res, failed) ==
  CASE res.status = 200 -> "Success"
    [] res.status = 401 /\ res.body = "Unauthorized" -> "Unauthorized"
    [] res.status = 400 /\ res.body = "Missing \"file\" in form data" -> "MissingFile"
    [] res.status = 500 /\ res.body = "Failed to calculate file hash"
         /\ failed = Some("hash") -> "HashFailure"
    [] res.status = 500 /\ StartsWith(res.body, "Failed to upload to R2")
         /\ failed = Some("put") -> "StorageWriteFailure"
    [] res.status = 404 -> "NotFound"
    [] res.status = 500 /\ res.body = "Internal Server Error"
         /\ failed \in {Some("list"), Some("head"), Some("get")} -> "UnhandledStorageFailure"
    [] OTHER -> "Other"

StatedOutcomes ==
  {"Success", "Unauthorized", "MissingFile", "HashFailure", "StorageWriteFailure", "NotFound"}

\* Every request that is being handled is eventually answered.
EveryRequestEnds == \A r \in Reqs : InFlight(r) ~> Answered(r)

\* A request whose hash or storage call failed is answered in the step of that
\* failure, the failed storage call being the last call it made; and nothing
\* of an answered request changes any more, its response included.
NoSecondAttempt ==
  /\ \A r \in Reqs :
       IsSome(req[r].failed) =>
         /\ Answered(r) /\ Status(r) = 500
         /\ Get(req[r].failed) # "hash" =>
              /\ req[r].calls # <<>>
              /\ req[r].calls[Len(req[r].calls)] = Get(req[r].failed)
         /\ Get(req[r].failed) = "hash" => req[r].calls = <<>>
         /\ Get(req[r].failed) \in {"put", "get"} =>
              Occurrences(req[r].calls, Get(req[r].failed)) = 1
  /\ \A r \in Reqs : Answered(r) => IsSome(req[r].res)

AnswerIsFinal == [][\A r \in Reqs : Answered(r) => req'[r] = req[r]]_vars

\* C24 as stated: provided every call returns or fails, every request ends
\* in one of success, Unauthorized, MissingFile, HashFailure,
\* StorageWriteFailure or NotFound, and no failed call is made again.
C24_TerminationAsStated ==
  /\ EveryRequestEnds
  /\ [](\A r \in Reqs :
          Answered(r) => Outcome(Get(req[r].res), req[r].failed) \in StatedOutcomes)
  /\ []NoSecondAttempt
  /\ AnswerIsFinal

\* C24: provided every call returns or fails, every request that is being
\* handled is eventually answered, once and for good, with one of success,
\* Unauthorized, MissingFile, HashFailure, StorageWriteFailure, NotFound or
\* the 500 'Internal Server Error' of a bucket.list, bucket.head or
\* bucket.get call that threw; and a request whose hash or storage call
\* failed is answered in that step, without making the call again.
C24_Termination ==
  /\ EveryRequestEnds
  /\ [](\A r \in Reqs :
          Answered(r) =>
            Outcome(Get(req[r].res), req[r].failed)
              \in StatedOutcomes \cup {"UnhandledStorageFailure"})
  /\ []NoSecondAttempt
  /\ AnswerIsFinal

\* Every request has been answered, among them an upload that was stored and
\* an upload whose head call on the stored object threw and which was
\* answered 500 'Internal Server Error'.
C24_Witness ==
  /\ \A r \in Reqs : Answered(r)
  /\ \E r \in Reqs :
       /\ IsPut(r) /\ req[r].failed = Some("head")
       /\ req[r].calls = <<"list", "head">>
       /\ Body(r) = "Internal Server Error"
  /\ \E r \in Reqs : Uploaded(r) /\ IsSome(req[r].r2Key)

\* The step in which the hash of request r's payload turns out not to be
\* computable.
HashFailStep(r) == req[r].failed = None /\ req'[r].failed = Some("hash")

\* C25: the step in which the hash of an upload cannot be computed answers
\* the upload with a 500-class response; the upload has then been through
\* Received only (neither Hashed nor DuplicateChecked was entered), has made
\* no list, head or put call before or in that step, and the step leaves the
\* bucket as it was, whatever other requests are in flight.
C25_HashFailure ==
  [][\A r \in Reqs :
       HashFailStep(r) =>
         /\ req[r].pc = "handler" /\ req[r].calls = <<>> /\ req[r].stages = <<>>
         /\ req'[r].pc = "done"
         /\ Get(req'[r].res).status \in 500..599
         /\ req'[r].stages = <<"Received">>
         /\ req'[r].calls = <<>>
         /\ req'[r].r2Key = None /\ req'[r].duplicate = None
         /\ bucket' = bucket]_vars

\* An upload whose hash could not be computed was answered 500 without having
\* made a call; it arrived at an empty bucket, and the bucket now holds the
\* object of another upload.
C25_Witness ==
  \E r1, r2 \in Reqs :
    /\ r1 # r2
    /\ Uploaded(r1) /\ IsSome(req[r1].r2Key)
    /\ req[r2].failed = Some("hash") /\ Answered(r2) /\ Status(r2) = 500
    /\ req[r2].calls = <<>>
    /\ req[r2].snap = <<>> /\ bucket # <<>>

\* The step in which a list or head call of request r's scan fails.
ScanFailStep(r) ==
  req[r].failed = None /\ IsSome(req'[r].failed) /\ Get(req'[r].failed) \in {"list", "head"}

\* C26: the step in which a bucket.list or bucket.head call of the duplicate
\* scan fails ends the request: it is answered in that step with a 500-class
\* error whose body is no URL, the failed call is the last call it makes, it
\* neither made nor makes a put, it is neither Persisted nor Deduplicated, and
\* the step leaves the bucket as it was.
C26_ScanFailure ==
  [][\A r \in Reqs :
       ScanFailStep(r) =>
         /\ req[r].pc = Get(req'[r].failed)
         /\ req'[r].pc = "done"
         /\ Get(req'[r].res).status \in 500..599
         /\ ~Contains(Get(req'[r].res).body, "://")
         /\ req'[r].calls = Append(req[r].calls, Get(req'[r].failed))
         /\ Occurrences(req'[r].calls, "put") = 0
         /\ req'[r].stages = <<"Received", "Hashed">>
         /\ req'[r].r2Key = None /\ req'[r].duplicate = None
         /\ bucket' = bucket]_vars

\* The second listing of an upload's scan failed after a head call on the
\* first page had returned without a match; the upload was answered 500 and
\* the bucket holds what it held when the upload arrived.
C26_Witness ==
  \E r \in Reqs :
    /\ IsPut(r) /\ Answered(r) /\ Status(r) = 500
    /\ req[r].failed = Some("list")
    /\ req[r].calls = <<"list", "head", "list">>
    /\ bucket = req[r].snap /\ bucket # <<>>

\* The step in which request r arrives as a GET and is answered.
GetStep(r) == req[r].pc = "idle" /\ req'[r].method = "GET"
\* The bucket key that a path '/<partition>/<key>' names.
KeyOfPath(path) == SubSeq(path, 2, Len(path))

Preferences ==
  {None, Some(""), Some(PreviewOptimized), Some("Original URL"), Some("Thumbnail")}
Protocols == {"http:", "https:"}

\* C28: the URL answered on the duplicate branch for the key found is the URL
\* that the code after a put builds for that key, and the URL answered after a
\* put is the URL that the duplicate branch builds for the new key; and for
\* the key of every successful upload the two branches build the same URL
\* under every protocol, either delivery class and every url_preference, with
\* the hosts as configured or defaulted, the transformed form for images with
\* the optimized preference included.
C28_OneUrlBuilder ==
  \A r \in Reqs :
    Uploaded(r) =>
      /\ DedupHit(r) =>
           Body(r) = FinalUrl(env, req[r].protocol, req[r].isImage,
                              Get(req[r].duplicate), PreferenceOf(r))
      /\ IsSome(req[r].r2Key) =>
           Body(r) = DuplicateUrl(env, req[r].protocol, req[r].isImage,
                                  Get(req[r].r2Key), PreferenceOf(r))
      /\ \A protocol \in Protocols, isImage \in BOOLEAN, pref \in Preferences :
           DuplicateUrl(env, protocol, isImage, AnsweredKey(r), pref)
             = FinalUrl(env, protocol, isImage, AnsweredKey(r), pref)

\* An image was stored and answered with its transformed URL, and a second
\* upload of the same bytes with the optimized preference was answered from
\* the duplicate branch with that same URL.
C28_Witness ==
  \E r1, r2 \in Reqs :
    /\ r1 < r2
    /\ Uploaded(r1) /\ IsSome(req[r1].r2Key)
    /\ DedupHit(r2) /\ req[r2].duplicate = req[r1].r2Key
    /\ PreferenceOf(r1) = Some(PreviewOptimized)
    /\ PreferenceOf(r2) = Some(PreviewOptimized)
    /\ req[r1].protocol = req[r2].protocol
    /\ Body(r1) = Body(r2)
    /\ Contains(Body(r2), "/cdn-cgi/image/")

\* The alphabet of nanoid(): A-Za-z0-9_-
IdChars == AllowedChars \ {"."}
\* The character positions of s that hold a dot.
DotsOf(s) == {i \in 1..Len(s) : SubSeq(s, i, i) = "."}

\* C29: when the sanitized name ends in a suffix '.ext' (a dot followed by at
\* least one character, none of them a dot), the generated name is the part
\* of the sanitized name before that suffix, then '_', then the id, then the
\* suffix; the part before and the suffix together are the sanitized name
\* exactly. Whatever the input, the id is one of the ids nanoid() can return:
\* 21 characters of A-Za-z0-9_-, so that the generated name is always 22
\* characters longer than what it keeps of the sanitized name.
C29_KeyComposition ==
  IsSome(helper.uniqueFilename) =>
    LET u == Get(helper.uniqueFilename)
        sanitized == sanitizeFilename(helper.name)
        dot == ExtDot(sanitized)
        basename == SubSeq(sanitized, 1, dot - 1)
        ext == SubSeq(sanitized, dot, Len(sanitized))
        id == SubSeq(u, Len(basename) + 2, Len(basename) + 1 + NanoIdLen)
    IN /\ dot > 0 =>
            /\ basename \o ext = sanitized
            /\ Len(ext) >= 2 /\ DotsOf(ext) = {1}
            /\ Len(u) = Len(sanitized) + 1 + NanoIdLen
            /\ SubSeq(u, 1, Len(basename)) = basename
            /\ SubSeq(u, Len(basename) + 1, Len(basename) + 1) = "_"
            /\ id \in NanoIds
            /\ SubSeq(u, Len(basename) + NanoIdLen + 2, Len(u)) = ext
       /\ \E i \in NanoIds :
            /\ Len(i) = NanoIdLen
            /\ \A k \in 1..Len(i) : SubSeq(i, k, k) \in IdChars
            /\ Contains(u, "_" \o i)
            /\ Len(u) \in {Len(sanitized) + 1 + NanoIdLen, Len(sanitized) + NanoIdLen}

\* C29 witness: the name 'a.a' got the id between 'a' and the suffix '.a'.
C29_Witness ==
  /\ helper.name = "a.a"
  /\ helper.uniqueFilename = Some("a_" \o Repeat("z", NanoIdLen) \o ".a")

\* The generated name has a dot right before the '_' that precedes the id.
DanglingDot(u) == \E id \in NanoIds : Contains(u, "._" \o id)

\* C30 as stated: a sanitized name that is only an extension ('.ext') yields
\* '_<id>.ext'; a sanitized name that ends in a bare '.' with no detectable
\* extension loses that dot; and no generated name has a dangling '._' before
\* the id or ends in '.'.
C30_KeyEdgeCases ==
  IsSome(helper.uniqueFilename) =>
    LET u == Get(helper.uniqueFilename)
        sanitized == sanitizeFilename(helper.name)
        dot == ExtDot(sanitized)
    IN /\ dot = 1 => \E id \in NanoIds : u = "_" \o id \o sanitized
       /\ dot = 0 /\ EndsWith(sanitized, ".") =>
            \E id \in NanoIds :
              u = SubSeq(sanitized, 1, Len(sanitized) - 1) \o "_" \o id
       /\ ~DanglingDot(u)
       /\ ~EndsWith(u, ".")

\* C30 (what the code does): a sanitized name that is only an extension
\* yields '_<id>.ext'; a sanitized name that ends in '.' with no detectable
\* extension loses exactly one dot; no generated name ends in '.'; and the
\* generated name has a dot right before '_<id>' exactly when the sanitized
\* name has two dots in a row: at its end, or as the dot of its extension
\* and the character before it.
C30_OneDotStripped ==
  IsSome(helper.uniqueFilename) =>
    LET u == Get(helper.uniqueFilename)
        sanitized == sanitizeFilename(helper.name)
        dot == ExtDot(sanitized)
    IN /\ dot = 1 => \E id \in NanoIds : u = "_" \o id \o sanitized
       /\ dot = 0 /\ EndsWith(sanitized, ".") =>
            \E id \in NanoIds :
              u = SubSeq(sanitized, 1, Len(sanitized) - 1) \o "_" \o id
       /\ ~EndsWith(u, ".")
       /\ DanglingDot(u) <=>
            \/ dot = 0 /\ EndsWith(sanitized, "..")
            \/ dot > 1 /\ SubSeq(sanitized, dot - 1, dot - 1) = "."

\* C30 witness: the name 'a..' has no extension; one of its two trailing dots
\* is removed and the generated name is 'a._<id>'.
C30_Witness ==
  /\ helper.name = "a.."
  /\ helper.uniqueFilename = Some("a._" \o Repeat("A", NanoIdLen))

\* The string s starts with the characters of p, compared one by one.
HasPrefixExactly(s, p) ==
  Len(s) >= Len(p) /\ \A i \in 1..Len(p) : SubSeq(s, i, i) = SubSeq(p, i, i)

\* C31: for every MIME string, the empty one included, the prefix selection
\* yields exactly one of images, videos and files: images exactly when the
\* string starts with the characters 'image/' as written, videos exactly when
\* it starts with 'video/' as written, files in every other case; so a type
\* that differs from a known prefix in case only, such as 'Image/PNG', is
\* classified as files.
C31_ClassifierTotal ==
  IsSome(helper.prefix) =>
    LET prefix == Get(helper.prefix)
        mimeType == helper.mimeType
    IN /\ prefix \in {"images", "videos", "files"}
       /\ prefix = "images" <=> HasPrefixExactly(mimeType, "image/")
       /\ prefix = "videos" <=> HasPrefixExactly(mimeType, "video/")
       /\ mimeType \in {"", "Image/PNG", "IMAGE/png", "Video/mp4"} => prefix = "files"

\* C31 witness: the type 'Image/PNG' was classified as files.
C31_Witness ==
  /\ helper.mimeType = "Image/PNG"
  /\ helper.prefix = Some("files")

\* The key has the shape '<partition>/<name>': a known partition, one slash,
\* and a non-empty name of characters of [A-Za-z0-9_.-]; and the GET route
\* matches '/<key>' and looks up that very key.
Addressable(key) ==
  \E partition \in Partitions :
    LET name == SubSeq(key, Len(partition) + 2, Len(key))
        path == "/" \o key
    IN /\ StartsWith(key, partition \o "/")
       /\ name # ""
       /\ \A i \in 1..Len(name) : SubSeq(name, i, i) \in AllowedChars \ {"/"}
       /\ RouteMatches(path)
       /\ RetrieveKey(Segments(path)[1], Segments(path)[2]) = key

\* C32: the key that an upload composes from the partition of its MIME type
\* and the name generated for its filename, whatever the filename and the
\* type, has the shape '<partition>/<name>' with a non-empty name of
\* characters of [A-Za-z0-9_.-], and so has every key in the bucket: each is
\* matched by the retrieval route, which looks up that very key.
C32_KeyShape ==
  /\ IsSome(helper.prefix) /\ IsSome(helper.uniqueFilename) =>
       Addressable(R2Key(Get(helper.prefix), Get(helper.uniqueFilename)))
  /\ \A k \in DOMAIN bucket : Addressable(k)
  /\ \A r \in Reqs : IsSome(req[r].r2Key) => Addressable(Get(req[r].r2Key))

\* C32 witness: of the filename '/ ?' nothing but an underscore is left, and
\* the key composed for it as a plain-text file is 'files/__<id>'.
C32_Witness ==
  /\ helper.name = "/ ?" /\ helper.mimeType = "text/plain"
  /\ helper.prefix = Some("files")
  /\ helper.uniqueFilename = Some("__" \o Repeat("A", NanoIdLen))

\* C33: the key that a duplicate hit returns lies in the partition of the
\* upload's own content type, and so does the path of the URL it answers
\* with. Of two successful uploads of the same bytes whose content types fall
\* into different partitions, the later one, unless its own partition held
\* the bytes already, is not a duplicate hit: it writes a key of its own in
\* its own partition, and when it came right after the first, each of the
\* two partitions then holds an object with that hash.
C33_DedupPerPartition ==
  /\ \A r \in Reqs :
       DedupHit(r) =>
         /\ StartsWith(Get(req[r].duplicate), PartitionOf(TypeOf(r)) \o "/")
         /\ Contains(Body(r), "/" \o PartitionOf(TypeOf(r)) \o "/")
         /\ \A p \in Partitions \ {PartitionOf(TypeOf(r))} :
              ~Contains(Body(r), "/" \o p \o "/")
  /\ \A r1, r2 \in Reqs :
       /\ r1 < r2 /\ Uploaded(r1) /\ Uploaded(r2)
       /\ PayloadOf(r1) = PayloadOf(r2)
       /\ PartitionOf(TypeOf(r1)) # PartitionOf(TypeOf(r2))
       /\ KeysWithHash(req[r2].snap, PartitionOf(TypeOf(r2)), sha256(PayloadOf(r2))) = {}
       => /\ ~DedupHit(r2)
          /\ IsSome(req[r2].r2Key)
          /\ StartsWith(Get(req[r2].r2Key), PartitionOf(TypeOf(r2)) \o "/")
          /\ r2 = r1 + 1 /\ Latest(r2) =>
               /\ KeysWithHash(bucket, PartitionOf(TypeOf(r1)), sha256(PayloadOf(r1))) # {}
               /\ KeysWithHash(bucket, PartitionOf(TypeOf(r2)), sha256(PayloadOf(r2))) # {}

\* The same bytes were uploaded as an image and then as a video; the second
\* upload listed its own, empty, partition and stored a second object.
C33_Witness ==
  \E r1, r2 \in Reqs :
    /\ r1 < r2 /\ Uploaded(r1) /\ Uploaded(r2)
    /\ PayloadOf(r1) = PayloadOf(r2)
    /\ TypeOf(r1) = "image/png" /\ TypeOf(r2) = "video/mp4"
    /\ req[r2].calls = <<"list", "put">>
    /\ Cardinality(DOMAIN bucket) = 2

\* The content type stored with the object under key k of bucket b.
StoredType(b, k) == b[k].httpMetadata.contentType

\* C34: with requests one at a time, an upload of bytes that its partition
\* already holds is a duplicate hit whatever its declared content type: of two
\* successful uploads of the same bytes, one right after the other, with
\* different content types of the same partition, the second writes nothing,
\* is answered with a URL of the key the first was answered with, and leaves
\* the object as it was: its content type and its mimeType metadata are
\* those of the first upload, not of the second, when the first stored the
\* object, and those it had before the first when the first was itself a
\* duplicate.
C34_HashOnly ==
  \A r1, r2 \in Reqs :
    /\ r2 = r1 + 1 /\ Uploaded(r1) /\ Uploaded(r2)
    /\ PayloadOf(r1) = PayloadOf(r2)
    /\ TypeOf(r1) # TypeOf(r2)
    /\ PartitionOf(TypeOf(r1)) = PartitionOf(TypeOf(r2))
    => /\ DedupHit(r2)
       /\ req[r2].r2Key = None /\ Occurrences(req[r2].calls, "put") = 0
       /\ Get(req[r2].duplicate) = AnsweredKey(r1)
       /\ EndsWith(Body(r2), "/" \o AnsweredKey(r1))
       /\ Latest(r2) =>
            LET key == AnsweredKey(r1)
            IN /\ bucket = req[r2].snap
               /\ Get(bucket[key].customMetadata).mimeType = StoredType(bucket, key)
               /\ IF IsSome(req[r1].r2Key)
                  THEN /\ StoredType(bucket, key) = TypeOf(r1)
                       /\ StoredType(bucket, key) # TypeOf(r2)
                  ELSE StoredType(bucket, key) = StoredType(req[r1].snap, key)

\* The same bytes were uploaded as image/png and right after as image/jpeg;
\* the second upload was answered with the first one's key, and the only
\* object of the bucket is still stored as image/png.
C34_Witness ==
  \E r1, r2 \in Reqs :
    /\ r2 = r1 + 1 /\ Uploaded(r1) /\ DedupHit(r2)
    /\ TypeOf(r1) = "image/png" /\ TypeOf(r2) = "image/jpeg"
    /\ req[r2].duplicate = req[r1].r2Key
    /\ DOMAIN bucket = {Get(req[r1].r2Key)}
    /\ StoredType(bucket, Get(req[r1].r2Key)) = "image/png"

\* The object under key k of bucket b offers the scan no hash: there is no
\* such object, or it has no custom metadata.
Unhashed(b, k) == k \notin DOMAIN b \/ b[k].customMetadata = None

\* The step in which a bucket.head call of request r's scan returns.
HeadReturned(r) ==
  req[r].pc = "head" /\ req'[r].calls = Append(req[r].calls, "head")

\* What an answered upload shows about the objects without a hash.
SkippedUnhashed(r) ==
  /\ DedupHit(r) =>
       /\ ~Unhashed(req[r].snap, Get(req[r].duplicate))
       /\ Get(req[r].snap[Get(req[r].duplicate)].customMetadata).originalHash
            = sha256(PayloadOf(r))
  /\ KeysWithHash(req[r].snap, req[r].prefix, sha256(PayloadOf(r))) = {} =>
       /\ ~DedupHit(r)
       /\ IsSome(req[r].r2Key)
       /\ req[r].calls[Len(req[r].calls)] = "put"
       /\ Occurrences(req[r].calls, "head")
            >= Cardinality({k \in KeysUnder(req[r].snap, req[r].prefix) :
                              Unhashed(req[r].snap, k)})
       /\ \A k \in DOMAIN req[r].snap :
            Unhashed(req[r].snap, k) => k # Get(req[r].r2Key)
       /\ Latest(r) =>
            /\ Get(req[r].r2Key) \in DOMAIN bucket
            /\ bucket[Get(req[r].r2Key)].body = PayloadOf(r)
            /\ ~Unhashed(bucket, Get(req[r].r2Key))
            /\ \A k \in DOMAIN bucket \cap DOMAIN req[r].snap :
                 Unhashed(req[r].snap, k) => bucket[k] = req[r].snap[k]

\* C35: with requests one at a time, a bucket.head call of the duplicate
\* scan that returns nothing, or an object without custom metadata, is no
\* match and no error: the step answers nothing, writes nothing and the scan
\* goes on with the keys that remain. An upload is never answered with the
\* key of an object that had no originalHash. An upload whose bytes no
\* object of its partition carried as originalHash when it arrived, though
\* an object without metadata may hold the same bytes, is stored under a new
\* key with hash metadata after looking up every such object, and the
\* objects without metadata stay as they were.
C35_NoHashNoMatch ==
  /\ [](\A r \in Reqs : Uploaded(r) => SkippedUnhashed(r))
  /\ [][\A r \in Reqs :
          HeadReturned(r) /\ Unhashed(bucket, Head(req[r].page)) =>
            /\ req'[r].pc \in {"head", "list", "put"}
            /\ req'[r].res = None /\ req'[r].failed = None
            /\ req'[r].duplicate = None /\ req'[r].r2Key = None
            /\ req'[r].page = Tail(req[r].page)
            /\ bucket' = bucket]_vars

\* An upload of bytes that the bucket held twice when it arrived, in an
\* object of the older lineage and in an object with hash metadata: the
\* first was looked up and skipped, the second had been removed when it was
\* looked up, and the bytes were stored again under a new key next to the
\* object of the older lineage.
C35_Witness ==
  \E r \in Reqs :
    /\ Uploaded(r) /\ PayloadOf(r) = "hello"
    /\ Cardinality(DOMAIN req[r].snap) = 2
    /\ \E k \in DOMAIN req[r].snap :
         /\ Unhashed(req[r].snap, k) /\ req[r].snap[k].body = "hello"
         /\ k \in DOMAIN bucket
    /\ req[r].calls = <<"list", "head", "head", "put">>
    /\ IsSome(req[r].r2Key) /\ Get(req[r].r2Key) \notin DOMAIN req[r].snap
    /\ Cardinality(DOMAIN bucket) = 2

\* The short ids that occur in a generated key.
IdsIn(key) == {id \in NanoIds : Contains(key, "_" \o id)}

\* The uploads of the requests rq are independent: their content hashes are
\* pairwise different, and so are the short ids of the keys generated.
Independent(rq) ==
  \A r1, r2 \in {r \in Reqs : rq[r].method = "PUT" /\ IsSome(rq[r].fileHash)} :
    r1 # r2 =>
      /\ rq[r1].fileHash # rq[r2].fileHash
      /\ IsSome(rq[r1].r2Key) /\ IsSome(rq[r2].r2Key) =>
           IdsIn(Get(rq[r1].r2Key)) \cap IdsIn(Get(rq[r2].r2Key)) = {}

\* C36: while the uploads made so far, overlapping in any way, have pairwise
\* different content hashes and keys with different short ids, every upload
\* answered 200 was answered from its own put and not as a duplicate, the
\* key in its URL holds its own payload and hash, the bucket holds exactly
\* one object per such upload, and the put of an upload writes a key the
\* bucket did not hold and leaves every other object as it was.
C36_Independent ==
  /\ [](Independent(req) =>
          /\ \A r \in Reqs :
               Uploaded(r) =>
                 /\ req[r].duplicate = None /\ IsSome(req[r].r2Key)
                 /\ Get(req[r].r2Key) \in DOMAIN bucket
                 /\ bucket[Get(req[r].r2Key)].body = PayloadOf(r)
                 /\ HashAt(bucket, Get(req[r].r2Key)) = sha256(PayloadOf(r))
                 /\ EndsWith(Body(r), "/" \o Get(req[r].r2Key))
          /\ Cardinality(DOMAIN bucket) = Cardinality({r \in Reqs : Uploaded(r)}))
  /\ [][Independent(req') =>
          \A r \in Reqs :
            PutStep(r) =>
              /\ Get(req'[r].r2Key) \notin DOMAIN bucket
              /\ DOMAIN bucket' = DOMAIN bucket \cup {Get(req'[r].r2Key)}
              /\ \A k \in DOMAIN bucket : bucket'[k] = bucket[k]]_vars

\* Two uploads of the same name and type with different bytes, both arrived
\* before either wrote and one looked up the other's object during its scan;
\* their keys carry different short ids and each key holds its own upload's
\* bytes.
C36_Witness ==
  \E r1, r2 \in Reqs :
    /\ r1 # r2 /\ Uploaded(r1) /\ Uploaded(r2)
    /\ req[r1].snap = <<>> /\ req[r2].snap = <<>>
    /\ TypeOf(r1) = TypeOf(r2) /\ PayloadOf(r1) # PayloadOf(r2)
    /\ Independent(req)
    /\ req[r2].calls = <<"list", "head", "put">>
    /\ bucket[Get(req[r1].r2Key)].body = PayloadOf(r1)
    /\ bucket[Get(req[r2].r2Key)].body = PayloadOf(r2)
    /\ Cardinality(DOMAIN bucket) = 2

\* C37: a PUT /upload that arrived without an X-Auth-Key header, or with an
\* empty one, is answered 401 'Unauthorized' in the step in which it arrives,
\* whatever AUTH_KEY is configured, the empty and the unset secret included:
\* it reaches no handler stage, makes no bucket call, generates no key and
\* the step leaves the bucket as it was.
C37_EmptyCredential ==
  /\ [](\A r \in Reqs :
          IsPut(r) /\ ~Truthy(req[r].authKey) =>
            /\ Answered(r)
            /\ req[r].res = Some(Text(401, "Unauthorized"))
            /\ req[r].stages = <<>> /\ req[r].calls = <<>>
            /\ req[r].fileHash = None
            /\ req[r].r2Key = None /\ req[r].duplicate = None)
  /\ [][\A r \in Reqs :
          req[r].pc = "idle" /\ req'[r].method = "PUT" /\ ~Truthy(req'[r].authKey)
            => bucket' = bucket]_vars

\* An upload with an empty X-Auth-Key was answered 401 by a worker whose
\* configured secret is the empty string, and another without the header by
\* the same worker.
C37_Witness ==
  /\ env.AUTH_KEY = Some("")
  /\ \E r1, r2 \in Reqs :
       /\ IsPut(r1) /\ req[r1].authKey = Some("") /\ Answered(r1) /\ Status(r1) = 401
       /\ IsPut(r2) /\ req[r2].authKey = None /\ Answered(r2) /\ Status(r2) = 401

\* Request r is a GET that has been answered.
Got(r) == req[r].method = "GET" /\ Answered(r)

\* The answer of a GET for a path from a bucket b, as the partition, the key
\* and the bucket contents determine it.
GetOutcome(b, path) ==
  IF ~RouteMatches(path) THEN NotFound
  ELSE IF KeyOfPath(path) \notin DOMAIN b THEN ContextNotFound
  ELSE [status |-> 200, body |-> b[KeyOfPath(path)].body,
        contentType |-> Some(b[KeyOfPath(path)].httpMetadata.contentType)]

====
